---- MODULE Spec2Model ----
(***************************************************************************)
(* A model of the cube solver of AeroHack: the facelet state, the move     *)
(* engine (applyMove), the heuristic provider and the A* search            *)
(* (solveCube).  Faces and stickers are numbered from 0 as in the source;  *)
(* a TLA+ sequence is indexed from 1, so cell (f, i) of a cube is          *)
(* cube[f + 1][i + 1].                                                     *)
(***************************************************************************)
EXTENDS Integers, Sequences, FiniteSets, TLC

VARIABLES
  cubeState,  \* the cube a caller holds and turns with applyMove
  origin,     \* which cube the caller started from: "solved" or "labelled"
  depth,      \* number of moves applied to cubeState so far
  genAI,               \* whether an oracle is configured (GEMINI_API_KEY)
  heuristicCallCount,  \* module-level call counter
  aiHeuristicCache,    \* module-level cache: canonical key -> oracle estimate
  promise,        \* the promise solveCube returned: "none", "pending", "fulfilled"
  result,         \* the values the promise was resolved with, in order
  scheduled,      \* number of processNextState calls waiting to run
  scrambledCube,  \* solveCube's first argument
  goalCube,       \* solveCube's second argument
  openSet,        \* the frontier
  visited,        \* the visited set
  frame,          \* where the call of solveCube waits, at an await
  oracleRequests, \* history: oracle requests issued by this search
  generated,      \* history: keys of the start and of every neighbour computed
  expanded,       \* history: keys of the nodes whose neighbours were generated
  lastStep,       \* history: what the last step of the search did
  steps,          \* history: calls of processNextState run by this search
  resumes,        \* history: awaits of this search that have returned
  pushLog,        \* history: the nodes pushed by this search, in the order pushed
  abandoned,      \* the caller has given up the search that is running
  other,          \* a second invocation of solveCube: its promise and locals
  microtasks,     \* the event loop: continuations ready to run, in order
  timers,         \* the event loop: setTimeout callbacks due, in order
  solution,          \* page state: the moves on display
  currentMoveIndex,  \* page state: index (from 0) of the last move played, or -1
  isPlaying,         \* page state
  isSolving,         \* page state: handleSolve is waiting for solveCube
  intervalRef,       \* the playback timer and what its callback closed over
  presses            \* history: buttons pressed on the page so far

moveVars == <<cubeState, origin, depth>>
heuristicVars == <<genAI, heuristicCallCount, aiHeuristicCache>>
invocationVars ==
  <<promise, result, scheduled, scrambledCube, goalCube, openSet, visited, frame,
    generated, expanded, lastStep, steps, resumes, pushLog>>
searchVars == <<invocationVars, oracleRequests>>
loopVars == <<microtasks, timers>>
pageVars == <<solution, currentMoveIndex, isPlaying, isSolving, intervalRef, presses>>
vars == <<moveVars, heuristicVars, searchVars, loopVars, loopVars, abandoned, other, pageVars>>

\* Longest move sequence applied by the move-engine specification.
MaxDepth == 3
\* Every scramble of at most this many moves is handed to solveCube.
MaxScramble == 1
\* Oracle requests of one search that get an answer; later ones fail.
MaxOracleReplies == 2

-----------------------------------------------------------------------------
(* State model *)

\* new Array(9).fill(i)
Fill9(i) == <<i, i, i, i, i, i, i, i, i>>

createSolvedCube == <<Fill9(0), Fill9(1), Fill9(2), Fill9(3), Fill9(4), Fill9(5)>>

\* A cube whose 54 facelets all differ (facelet f, i holds 9 f + i): turning
\* it shows where every single position goes.
Label9(f) ==
  <<9 * f, 9 * f + 1, 9 * f + 2, 9 * f + 3, 9 * f + 4, 9 * f + 5, 9 * f + 6, 9 * f + 7,
    9 * f + 8>>
labelledCube == <<Label9(0), Label9(1), Label9(2), Label9(3), Label9(4), Label9(5)>>

\* A comparison that returns after the first face.
isGoalFirstFace(current, goal) ==
  \A i \in 0..0 : \A j \in 0..8 : current[i + 1][j + 1] = goal[i + 1][j + 1]

isGoal(current, goal) ==
  \A i \in 0..5 : \A j \in 0..8 : current[i + 1][j + 1] = goal[i + 1][j + 1]

\* A move list with a slip: "R" where "R'" belongs.
validMovesNoRPrime ==
  <<"U", "U'", "U2", "D", "D'", "D2", "R", "R", "R2", "L", "L'", "L2">>

validMoves == <<"U", "U'", "U2", "D", "D'", "D2", "R", "R'", "R2", "L", "L'", "L2">>

-----------------------------------------------------------------------------
(* Move engine.  applyMove works on arrays that live on a heap: a heap is a *)
(* sequence of arrays and a reference is an index into it; a cube object is *)
(* the sequence of the references of its six face arrays.                   *)

\* Tables with a slip: two entries of the clockwise table exchanged, the
\* clockwise table used for the counter-clockwise turn, a mirror image for
\* the half turn.
facePermutationSlip == <<6, 3, 0, 7, 4, 1, 8, 2, 5>>
facePermutationPrimeSlip == <<6, 3, 0, 7, 4, 1, 8, 5, 2>>
facePermutation2Slip == <<2, 1, 0, 5, 4, 3, 8, 7, 6>>

facePermutation == <<6, 3, 0, 7, 4, 1, 8, 5, 2>>
facePermutationPrime == <<2, 5, 8, 1, 4, 7, 0, 3, 6>>
facePermutation2 == <<8, 7, 6, 5, 4, 3, 2, 1, 0>>

RECURSIVE PermuteInPlace(_, _, _)
PermuteInPlace(face, perm, i) ==
  IF i > Len(perm) THEN face
  ELSE PermuteInPlace([face EXCEPT ![i] = face[perm[i] + 1]], perm, i + 1)

\* The permutation written without the temporary copy: each cell is read
\* from the array that is being overwritten.
applyPermutationNoTemp(face, perm) == PermuteInPlace(face, perm, 1)

\* temp = [...face]; face[i] = temp[perm[i]] for every i
applyPermutation(face, perm) ==
  LET temp == face
  IN  <<temp[perm[1] + 1], temp[perm[2] + 1], temp[perm[3] + 1], temp[perm[4] + 1],
        temp[perm[5] + 1], temp[perm[6] + 1], temp[perm[7] + 1], temp[perm[8] + 1],
        temp[perm[9] + 1]>>

\* cube.faces.map((face) => face): the same six arrays, no copy.
AliasFaces(heap, faces) == [heap |-> heap, faces |-> faces]

\* cube.faces.map((face) => [...face]): six fresh arrays, appended to the heap.
CopyFaces(heap, faces) ==
  LET n == Len(heap)
  IN  [heap  |-> heap \o <<heap[faces[1]], heap[faces[2]], heap[faces[3]],
                           heap[faces[4]], heap[faces[5]], heap[faces[6]]>>,
       faces |-> <<n + 1, n + 2, n + 3, n + 4, n + 5, n + 6>>]

\* The statements of a case of applyMove's switch.
S(f, a, b, c) == <<<<f, a>>, <<f, b>>, <<f, c>>>>
Perm(f, p) == [op |-> "perm", a |-> f, b |-> p]
Temp(src) == [op |-> "temp", a |-> src, b |-> <<>>]
Temp2(src) == [op |-> "temp2", a |-> src, b |-> <<>>]
Copy(dst, src) == [op |-> "copy", a |-> dst, b |-> src]
FromTemp(dst) == [op |-> "fromTemp", a |-> dst, b |-> <<>>]
FromTemp2(dst) == [op |-> "fromTemp2", a |-> dst, b |-> <<>>]

MoveBody(move) ==
  CASE
     move = "U" ->
       << Perm(0, facePermutation),
          Temp(S(1, 0, 1, 2)),
          Copy(S(1, 0, 1, 2), S(2, 0, 1, 2)),
          Copy(S(2, 0, 1, 2), S(3, 0, 1, 2)),
          Copy(S(3, 0, 1, 2), S(4, 0, 1, 2)),
          FromTemp(S(4, 0, 1, 2)) >>
  [] move = "U'" ->
       << Perm(0, facePermutationPrime),
          Temp(S(1, 0, 1, 2)),
          Copy(S(1, 0, 1, 2), S(4, 0, 1, 2)),
          Copy(S(4, 0, 1, 2), S(3, 0, 1, 2)),
          Copy(S(3, 0, 1, 2), S(2, 0, 1, 2)),
          FromTemp(S(2, 0, 1, 2)) >>
  [] move = "U2" ->
       << Perm(0, facePermutation2),
          Temp(S(1, 0, 1, 2)),
          Copy(S(1, 0, 1, 2), S(3, 0, 1, 2)),
          FromTemp(S(3, 0, 1, 2)),
          Temp2(S(2, 0, 1, 2)),
          Copy(S(2, 0, 1, 2), S(4, 0, 1, 2)),
          FromTemp2(S(4, 0, 1, 2)) >>
  [] move = "D" ->
       << Perm(5, facePermutation),
          Temp(S(1, 6, 7, 8)),
          Copy(S(1, 6, 7, 8), S(4, 6, 7, 8)),
          Copy(S(4, 6, 7, 8), S(3, 6, 7, 8)),
          Copy(S(3, 6, 7, 8), S(2, 6, 7, 8)),
          FromTemp(S(2, 6, 7, 8)) >>
  [] move = "D'" ->
       << Perm(5, facePermutationPrime),
          Temp(S(1, 6, 7, 8)),
          Copy(S(1, 6, 7, 8), S(2, 6, 7, 8)),
          Copy(S(2, 6, 7, 8), S(3, 6, 7, 8)),
          Copy(S(3, 6, 7, 8), S(4, 6, 7, 8)),
          FromTemp(S(4, 6, 7, 8)) >>
  [] move = "D2" ->
       << Perm(5, facePermutation2),
          Temp(S(1, 6, 7, 8)),
          Copy(S(1, 6, 7, 8), S(3, 6, 7, 8)),
          FromTemp(S(3, 6, 7, 8)),
          Temp2(S(2, 6, 7, 8)),
          Copy(S(2, 6, 7, 8), S(4, 6, 7, 8)),
          FromTemp2(S(4, 6, 7, 8)) >>
  [] move = "R" ->
       << Perm(3, facePermutation),
          Temp(S(0, 2, 5, 8)),
          Copy(S(0, 2, 5, 8), S(2, 2, 5, 8)),
          Copy(S(2, 2, 5, 8), S(5, 2, 5, 8)),
          Copy(S(5, 2, 5, 8), S(4, 6, 3, 0)),
          FromTemp(S(4, 6, 3, 0)) >>
  [] move = "R'" ->
       << Perm(3, facePermutationPrime),
          Temp(S(0, 2, 5, 8)),
          Copy(S(0, 2, 5, 8), S(4, 6, 3, 0)),
          Copy(S(4, 6, 3, 0), S(5, 2, 5, 8)),
          Copy(S(5, 2, 5, 8), S(2, 2, 5, 8)),
          FromTemp(S(2, 2, 5, 8)) >>
  [] move = "R2" ->
       << Perm(3, facePermutation2),
          Temp(S(0, 2, 5, 8)),
          Copy(S(0, 2, 5, 8), S(5, 2, 5, 8)),
          FromTemp(S(5, 2, 5, 8)),
          Temp2(S(2, 2, 5, 8)),
          Copy(S(2, 2, 5, 8), S(4, 6, 3, 0)),
          FromTemp2(S(4, 6, 3, 0)) >>
  [] move = "L" ->
       << Perm(1, facePermutation),
          Temp(S(0, 0, 3, 6)),
          Copy(S(0, 0, 3, 6), S(4, 8, 5, 2)),
          Copy(S(4, 8, 5, 2), S(5, 0, 3, 6)),
          Copy(S(5, 0, 3, 6), S(2, 0, 3, 6)),
          FromTemp(S(2, 0, 3, 6)) >>
  [] move = "L'" ->
       << Perm(1, facePermutationPrime),
          Temp(S(0, 0, 3, 6)),
          Copy(S(0, 0, 3, 6), S(2, 0, 3, 6)),
          Copy(S(2, 0, 3, 6), S(5, 0, 3, 6)),
          Copy(S(5, 0, 3, 6), S(4, 8, 5, 2)),
          FromTemp(S(4, 8, 5, 2)) >>
  [] move = "L2" ->
       << Perm(1, facePermutation2),
          Temp(S(0, 0, 3, 6)),
          Copy(S(0, 0, 3, 6), S(5, 0, 3, 6)),
          FromTemp(S(5, 0, 3, 6)),
          Temp2(S(2, 0, 3, 6)),
          Copy(S(2, 0, 3, 6), S(4, 8, 5, 2)),
          FromTemp2(S(4, 8, 5, 2)) >>
  [] OTHER -> << >>

\* newCube.faces[f][i]
ReadCell(st, cell) == st.heap[st.faces[cell[1] + 1]][cell[2] + 1]

\* A write that lands one sticker further than the cell it names.
WriteCellOffByOne(st, cell, v) ==
  [st EXCEPT !.heap[st.faces[cell[1] + 1]][((cell[2] + 1) % 9) + 1] = v]

\* newCube.faces[f][i] = v
WriteCell(st, cell, v) ==
  [st EXCEPT !.heap[st.faces[cell[1] + 1]][cell[2] + 1] = v]

\* Three assignments, executed one after the other.
Write3(st, dst, v1, v2, v3) ==
  WriteCell(WriteCell(WriteCell(st, dst[1], v1), dst[2], v2), dst[3], v3)

ExecStmt(st, stmt) ==
  CASE stmt.op = "perm" ->
         [st EXCEPT !.heap[st.faces[stmt.a + 1]] = applyPermutation(@, stmt.b)]
    [] stmt.op = "temp" ->
         [st EXCEPT !.temp = <<ReadCell(st, stmt.a[1]), ReadCell(st, stmt.a[2]),
                                 ReadCell(st, stmt.a[3])>>]
    [] stmt.op = "temp2" ->
         [st EXCEPT !.temp2 = <<ReadCell(st, stmt.a[1]), ReadCell(st, stmt.a[2]),
                                  ReadCell(st, stmt.a[3])>>]
    [] stmt.op = "copy" ->
         LET s1 == WriteCell(st, stmt.a[1], ReadCell(st, stmt.b[1]))
             s2 == WriteCell(s1, stmt.a[2], ReadCell(s1, stmt.b[2]))
         IN  WriteCell(s2, stmt.a[3], ReadCell(s2, stmt.b[3]))
    [] stmt.op = "fromTemp" -> Write3(st, stmt.a, st.temp[1], st.temp[2], st.temp[3])
    [] stmt.op = "fromTemp2" -> Write3(st, stmt.a, st.temp2[1], st.temp2[2], st.temp2[3])

RECURSIVE ExecBody(_, _)
ExecBody(st, body) ==
  IF body = << >> THEN st ELSE ExecBody(ExecStmt(st, Head(body)), Tail(body))

\* applyMove on the heap: the cube object `faces` is turned by `move`; the
\* result is the heap afterwards and the references of the returned cube.
applyMoveOnHeap(heap, faces, move) ==
  LET newCube == CopyFaces(heap, faces)
      st == ExecBody([heap |-> newCube.heap, faces |-> newCube.faces,
                      temp |-> << >>, temp2 |-> << >>], MoveBody(move))
  IN  [heap |-> st.heap, faces |-> st.faces]

\* The facelets of the cube object `faces` on `heap`.
Facelets(heap, faces) ==
  <<heap[faces[1]], heap[faces[2]], heap[faces[3]], heap[faces[4]], heap[faces[5]],
    heap[faces[6]]>>

\* applyMove as a function of facelet values: the argument's six arrays are
\* the heap, the result is read off the returned cube.  A CubeState has six
\* face arrays.
applyMove(cube, move) ==
  CASE Len(cube) = 6 ->
    LET r == applyMoveOnHeap(cube, <<1, 2, 3, 4, 5, 6>>, move)
    IN  Facelets(r.heap, r.faces)

RECURSIVE applyMoves(_, _)
applyMoves(cube, moves) ==
  IF moves = << >> THEN cube ELSE applyMoves(applyMove(cube, Head(moves)), Tail(moves))


-----------------------------------------------------------------------------
(* Manual input.  The text of the input box is a string of the program: its *)
(* sequence of UTF-16 code units.  A token is a piece of it.                *)

\* Characters of ASCII that the texts and the move names are written with:
\* the capitals (code units 65 to 90), the small letters (97 to 122), the
\* digits (48 to 57), the blank (32) and the apostrophe (39).
Capitals == "ABCDEFGHIJKLMNOPQRSTUVWXYZ"
SmallLetters == "abcdefghijklmnopqrstuvwxyz"
Digits == "0123456789"
PlaceIn(str, ch) == CHOOSE i \in 1..Len(str) : SubSeq(str, i, i) = ch
IsIn(str, ch) == \E i \in 1..Len(str) : SubSeq(str, i, i) = ch

\* charCodeAt: the code unit of such a character, and the code units of a
\* string of them.
CodeUnitOf(ch) ==
  CASE ch = " " -> 32
    [] ch = "'" -> 39
    [] IsIn(Digits, ch) -> 47 + PlaceIn(Digits, ch)
    [] IsIn(Capitals, ch) -> 64 + PlaceIn(Capitals, ch)
    [] IsIn(SmallLetters, ch) -> 96 + PlaceIn(SmallLetters, ch)
CodeUnits(str) == [i \in 1..Len(str) |-> CodeUnitOf(SubSeq(str, i, i))]

\* A separator class that knows the blank only.
IsSpaceBlankOnly(unit) == unit = 32

\* \s of the regular expression and the white space of trim(), the same 25
\* characters: tab, line feed, vertical tab, form feed, carriage return
\* (9 to 13), space (32), no-break space (160), ogham space mark (5760), en
\* quad to hair space (8192 to 8202), line and paragraph separator (8232,
\* 8233), narrow no-break space (8239), medium mathematical space (8287),
\* ideographic space (12288) and the byte order mark (65279).
IsSpace(unit) ==
  unit \in (9..13) \cup {32, 160, 5760} \cup (8192..8202)
             \cup {8232, 8233, 8239, 8287, 12288, 65279}

\* manualMove.trim()
RECURSIVE TrimStart(_)
TrimStart(text) ==
  IF text # << >> /\ IsSpace(Head(text)) THEN TrimStart(Tail(text)) ELSE text
RECURSIVE TrimEnd(_)
TrimEnd(text) ==
  IF text # << >> /\ IsSpace(text[Len(text)])
  THEN TrimEnd(SubSeq(text, 1, Len(text) - 1))
  ELSE text
Trim(text) == TrimEnd(TrimStart(text))

\* .split(/\s+/): the pieces between runs of white space; `piece` is the
\* piece being read.
RECURSIVE SplitSpaces(_, _)
SplitSpaces(text, piece) ==
  IF text = << >> THEN <<piece>>
  ELSE IF IsSpace(Head(text))
       THEN <<piece>> \o SplitSpaces(TrimStart(text), << >>)
       ELSE SplitSpaces(Tail(text), Append(piece, Head(text)))

\* .filter(Boolean): the empty string is dropped.
FilterBoolean(pieces) == SelectSeq(pieces, LAMBDA piece : piece # << >>)

\* validMoves.includes(move), for a token of the text: one of the names has
\* the token's code units.
Includes(list, move) == \E k \in 1..Len(list) : CodeUnits(list[k]) = move

\* The name in the list that the token is.
MoveNamed(list, move) == list[CHOOSE k \in 1..Len(list) : CodeUnits(list[k]) = move]

\* The loop of handleManualMoveInput over the tokens.
RECURSIVE ApplyTokens(_, _)
ApplyTokens(cube, tokens) ==
  IF tokens = << >> THEN cube
  ELSE ApplyTokens(IF Includes(validMoves, Head(tokens))
                   THEN applyMove(cube, MoveNamed(validMoves, Head(tokens)))
                   ELSE cube,
                   Tail(tokens))

\* The tokens of a text and the cube handleManualMoveInput sets for it.
TokensOf(text) == FilterBoolean(SplitSpaces(Trim(text), << >>))
ManualMoveResult(cube, text) == ApplyTokens(cube, TokensOf(text))

\* Texts typed into the input box: with blanks, with the control characters
\* of \s, and with its characters outside ASCII.
ManualInputs ==
  {<< >>,
   CodeUnits("U"),
   CodeUnits("F"),
   CodeUnits("u"),
   CodeUnits("UR"),
   CodeUnits("U R'"),
   CodeUnits("U") \o <<9>> \o CodeUnits("R2"),
   CodeUnits("F L2"),
   CodeUnits(" D'  x U2 "),
   CodeUnits("R U3 L'") \o <<10>>,
   CodeUnits("U") \o <<13>> \o CodeUnits("R"),
   <<12>> \o CodeUnits("D2") \o <<13, 10>> \o CodeUnits("L"),
   CodeUnits("U") \o <<11>> \o CodeUnits("R"),
   <<11>> \o CodeUnits("U"),
   <<160>> \o CodeUnits("D") \o <<5760>> \o CodeUnits("L'") \o <<65279>>,
   CodeUnits("U") \o <<8195>> \o CodeUnits("R"),
   <<8192>> \o CodeUnits("L") \o <<8202, 8232>> \o CodeUnits("D'") \o <<8233>>,
   CodeUnits("R2") \o <<8239>> \o CodeUnits("U") \o <<8287, 12288>> \o CodeUnits("D2"),
   CodeUnits("U") \o <<8203>> \o CodeUnits("R"),
   CodeUnits("U") \o <<233>>}

-----------------------------------------------------------------------------
(* Canonical key *)

DigitChars == <<"0", "1", "2", "3", "4", "5", "6", "7", "8", "9">>

\* String(n) for a number n >= 0: its decimal digits.
RECURSIVE NumberToString(_)
NumberToString(n) ==
  IF n < 10 THEN DigitChars[n + 1]
  ELSE NumberToString(n \div 10) \o DigitChars[(n % 10) + 1]

\* A join that stops one sticker short.
JoinFaceFirstEight(face) ==
  NumberToString(face[1]) \o NumberToString(face[2]) \o NumberToString(face[3])
    \o NumberToString(face[4]) \o NumberToString(face[5]) \o NumberToString(face[6])
    \o NumberToString(face[7]) \o NumberToString(face[8])

\* face.join("")
JoinFace(face) ==
  NumberToString(face[1]) \o NumberToString(face[2]) \o NumberToString(face[3])
    \o NumberToString(face[4]) \o NumberToString(face[5]) \o NumberToString(face[6])
    \o NumberToString(face[7]) \o NumberToString(face[8]) \o NumberToString(face[9])

\* cube.faces.map((face) => face.join("")).join("|")
hashCubeState(cube) ==
  JoinFace(cube[1]) \o "|" \o JoinFace(cube[2]) \o "|" \o JoinFace(cube[3])
    \o "|" \o JoinFace(cube[4]) \o "|" \o JoinFace(cube[5]) \o "|" \o JoinFace(cube[6])

-----------------------------------------------------------------------------
(* Heuristic provider *)

\* Stickers one move is taken to put right (the divisor of the local estimate).
StickersPerMove == 8
\* The oracle is consulted on every OracleCadence-th heuristic call.
OracleCadence == 15
\* An oracle estimate is accepted when it lies strictly between 0 and this.
EstimateLimit == 50

\* Math.floor in the place of Math.ceil.
getDisplacedPiecesHeuristicFloor(current, goal) ==
  LET displacedCount ==
        Cardinality({c \in (0..5) \X (0..8) :
                       current[c[1] + 1][c[2] + 1] # goal[c[1] + 1][c[2] + 1]})
  IN  displacedCount \div StickersPerMove

\* Math.ceil(displacedCount / 8)
getDisplacedPiecesHeuristic(current, goal) ==
  LET displacedCount ==
        Cardinality({c \in (0..5) \X (0..8) :
                       current[c[1] + 1][c[2] + 1] # goal[c[1] + 1][c[2] + 1]})
  IN  (displacedCount + StickersPerMove - 1) \div StickersPerMove

\* What an oracle request comes back with: an exception, or a text (after
\* trim()), given as its sequence of characters.
ThrowReply == [throws |-> TRUE, text |-> << >>]
TextReply(chars) == [throws |-> FALSE, text |-> chars]
OracleReplies ==
  {ThrowReply, TextReply(<<"n", "o">>), TextReply(<<"0">>), TextReply(<<"1">>),
   TextReply(<<"-", "1">>), TextReply(<<"4", "9">>), TextReply(<<"5", "0">>)}

IsDigit(ch) == \E d \in 1..10 : DigitChars[d] = ch
DigitValue(ch) == (CHOOSE d \in 1..10 : DigitChars[d] = ch) - 1

\* response.match(/\d+/)?.[0]: the first longest run of digits, << >> if
\* the text has no digit.
FirstDigits(text) ==
  IF \A i \in 1..Len(text) : ~IsDigit(text[i]) THEN << >>
  ELSE LET from == CHOOSE i \in 1..Len(text) :
                     /\ IsDigit(text[i])
                     /\ \A j \in 1..(i - 1) : ~IsDigit(text[j])
           to == CHOOSE i \in from..Len(text) :
                   /\ \A j \in from..i : IsDigit(text[j])
                   /\ (i = Len(text) \/ ~IsDigit(text[i + 1]))
       IN  SubSeq(text, from, to)

\* Number.parseInt of a run of digits.
RECURSIVE parseInt(_)
parseInt(digits) ==
  IF digits = << >> THEN 0
  ELSE 10 * parseInt(SubSeq(digits, 1, Len(digits) - 1)) + DigitValue(digits[Len(digits)])

\* Number.parseInt(response.match(/\d+/)?.[0] || "0")
aiEstimateOf(text) ==
  LET matched == FirstDigits(text)
  IN  parseInt(IF matched = << >> THEN <<"0">> ELSE matched)

\* cache.set(key, value)
CacheSet(cache, key, value) ==
  [k \in DOMAIN cache \cup {key} |-> IF k = key THEN value ELSE cache[k]]

\* getAIEnhancedHeuristic from the point its request settles, with `reply`
\* and with the cache as it is by then: the value returned and the cache
\* afterwards.  (stateKey was computed before the request was sent.)
getAIEnhancedHeuristicSettled(current, goal, cache, reply) ==
  IF ~reply.throws /\ aiEstimateOf(reply.text) > 0
       /\ aiEstimateOf(reply.text) < EstimateLimit
  THEN [h |-> aiEstimateOf(reply.text),
        cache |-> CacheSet(cache, hashCubeState(current), aiEstimateOf(reply.text))]
  ELSE [h |-> getDisplacedPiecesHeuristic(current, goal), cache |-> cache]

\* getAIEnhancedHeuristic with the cache as it is and the reply a request
\* would get: the value returned, the cache afterwards, and whether a
\* request was issued.
getAIEnhancedHeuristic(current, goal, configured, cache, reply) ==
  IF ~configured
  THEN [h |-> getDisplacedPiecesHeuristic(current, goal), cache |-> cache, asked |-> FALSE]
  ELSE LET stateKey == hashCubeState(current)
       IN  IF stateKey \in DOMAIN cache
           THEN [h |-> cache[stateKey], cache |-> cache, asked |-> FALSE]
           ELSE LET settled == getAIEnhancedHeuristicSettled(current, goal, cache, reply)
                IN  [h |-> settled.h, cache |-> settled.cache, asked |-> TRUE]

\* A provider whose every 15th call, without an oracle, returns 0 instead
\* of the local estimate.
getSmartHeuristicNoFallback(current, goal, configured, count, cache, reply) ==
  LET called == count + 1
  IN  IF called % OracleCadence = 0
      THEN IF configured
           THEN LET ai == getAIEnhancedHeuristic(current, goal, configured, cache, reply)
                IN  [h |-> ai.h, count |-> called, cache |-> ai.cache, asked |-> ai.asked]
           ELSE [h |-> 0, count |-> called, cache |-> cache, asked |-> FALSE]
      ELSE [h |-> getDisplacedPiecesHeuristic(current, goal), count |-> called,
            cache |-> cache, asked |-> FALSE]

\* A provider that goes to the oracle path on every call.
getSmartHeuristicEveryCall(current, goal, configured, count, cache, reply) ==
  LET called == count + 1
  IN  IF configured
      THEN LET ai == getAIEnhancedHeuristic(current, goal, configured, cache, reply)
           IN  [h |-> ai.h, count |-> called, cache |-> ai.cache, asked |-> ai.asked]
      ELSE [h |-> getDisplacedPiecesHeuristic(current, goal), count |-> called,
            cache |-> cache, asked |-> FALSE]

\* getSmartHeuristic with the counter and the cache as they are: the value
\* returned, the counter and the cache afterwards, whether the oracle was asked.
getSmartHeuristic(current, goal, configured, count, cache, reply) ==
  LET called == count + 1
  IN  IF called % OracleCadence = 0 /\ configured
      THEN LET ai == getAIEnhancedHeuristic(current, goal, configured, cache, reply)
           IN  [h |-> ai.h, count |-> called, cache |-> ai.cache, asked |-> ai.asked]
      ELSE [h |-> getDisplacedPiecesHeuristic(current, goal), count |-> called,
            cache |-> cache, asked |-> FALSE]

-----------------------------------------------------------------------------
(* Scramble generator *)

\* The cubes scrambleCube(moves) can return: each of the `moves` rounds
\* applies one of the 12 moves, chosen at random.
RECURSIVE scrambleCube(_)
scrambleCube(moves) ==
  IF moves = 0 THEN {createSolvedCube}
  ELSE {applyMove(state, validMoves[k]) :
          state \in scrambleCube(moves - 1), k \in 1..Len(validMoves)}

-----------------------------------------------------------------------------
(* Search engine *)

\* A node that does not keep its path.
NodeNoPath(cube, g, h, moves) ==
  [cube |-> cube, gScore |-> g, hScore |-> h, fScore |-> g + h, moves |-> << >>]

\* A node whose f leaves g out.
NodeWithoutG(cube, g, h, moves) ==
  [cube |-> cube, gScore |-> g, hScore |-> h, fScore |-> h, moves |-> moves]

\* A search node (interface State).
Node(cube, g, h, moves) ==
  [cube |-> cube, gScore |-> g, hScore |-> h, fScore |-> g + h, moves |-> moves]

Min(set) == CHOOSE x \in set : \A y \in set : x <= y

\* A sort that is not stable: nodes of equal fScore come out in reverse.
RECURSIVE SortedByTiesReversed(_, _)
SortedByTiesReversed(nodes, fs) ==
  IF fs = {} THEN << >>
  ELSE LET least == Min(fs)
           ties == SelectSeq(nodes, LAMBDA n : n.fScore = least)
       IN  [i \in 1..Len(ties) |-> ties[Len(ties) + 1 - i]]
             \o SortedByTiesReversed(nodes, fs \ {least})

\* openSet.sort((a, b) => a.fScore - b.fScore): Array.prototype.sort is
\* stable, so nodes of equal fScore keep their order.  fs is the set of
\* fScore values still to be placed.
RECURSIVE SortedBy(_, _)
SortedBy(nodes, fs) ==
  IF fs = {} THEN << >>
  ELSE LET least == Min(fs)
       IN  SelectSeq(nodes, LAMBDA n : n.fScore = least) \o SortedBy(nodes, fs \ {least})

SortByFScore(nodes) == SortedBy(nodes, {nodes[i].fScore : i \in 1..Len(nodes)})

\* The call of solveCube where it waits: at the await of the start node's
\* estimate ("start") or of the estimate of the neighbour by validMoves[k]
\* of currentState ("neighbor"); `cube` is the cube being estimated.  waits
\* says which await is to return next: "oracle" while the request of line
\* 112 is outstanding and "settled" once it has settled with `reply`
\* (getAIEnhancedHeuristic goes on in a microtask), "inner" when
\* getSmartHeuristic goes on from its await of line 132 in a microtask,
\* "micro" when the value is there and solveCube goes on in a microtask.
\* The frame holds no reply.
NoReply == [throws |-> FALSE, text |-> << >>]
NoNode == [cube |-> createSolvedCube, gScore |-> 0, hScore |-> 0, fScore |-> 0, moves |-> << >>]
NoFrame ==
  [at |-> "none", k |-> 0, currentState |-> NoNode, cube |-> createSolvedCube,
   hScore |-> 0, waits |-> "none", reply |-> NoReply]

\* An invocation of solveCube before it is called: its promise, its locals
\* and its history.
NoInvocation ==
  [promise |-> "none", result |-> << >>, scheduled |-> 0,
   scrambledCube |-> createSolvedCube, goalCube |-> createSolvedCube,
   openSet |-> << >>, visited |-> {}, frame |-> NoFrame,
   generated |-> {}, expanded |-> << >>, lastStep |-> "none", steps |-> 0,
   resumes |-> 0, pushLog |-> << >>]

\* The second invocation before it is called.
NoOther == NoInvocation

\* No search has been started.
NoSearch ==
  /\ heuristicCallCount = 0
  /\ aiHeuristicCache = << >>
  /\ promise = "none"
  /\ result = << >>
  /\ scheduled = 0
  /\ scrambledCube = createSolvedCube
  /\ goalCube = createSolvedCube
  /\ openSet = << >>
  /\ visited = {}
  /\ frame = NoFrame
  /\ oracleRequests = 0
  /\ generated = {}
  /\ expanded = << >>
  /\ lastStep = "none"
  /\ steps = 0
  /\ resumes = 0
  /\ pushLog = << >>
  /\ abandoned = FALSE
  /\ other = NoOther
  /\ microtasks = << >>
  /\ timers = << >>

\* A visited set that never reports a key.
VisitedHasNever(set, key) == FALSE

\* visited.has(key)
VisitedHas(set, key) == key \in set

\* visited.add(key)
VisitedAdd(set, key) == set \cup {key}

\* The path of a neighbour with the move put in front.
PathPrepend(moves, move) == <<move>> \o moves

\* [...currentState.moves, move]
PathWith(moves, move) == Append(moves, move)

\* What a run of an invocation's code, from where it was called or resumed
\* to where it returns to the event loop, leaves: the invocation, the
\* module's counter and cache (mem, with the history of requests), the
\* number of setTimeout calls it made and whether it waits on a promise
\* that is resolved already.
Ran(inv, mem, timeouts, micro) ==
  [inv |-> inv, mem |-> mem, timeouts |-> timeouts, micro |-> micro]

\* The call waits for the estimate of `cube`, `sh` being what
\* getSmartHeuristic did up to its await: it has returned its value (no
\* request was made), or it waits itself (`inner`, line 132) for a value
\* that is there, read from the cache, or for the request it has sent.
Awaiting(inv, mem, at, k, currentState, cube, sh, inner) ==
  Ran([inv EXCEPT !.frame = [at |-> at, k |-> k, currentState |-> currentState,
                             cube |-> cube,
                             hScore |-> IF sh.asked THEN 0 ELSE sh.h,
                             waits |-> IF sh.asked THEN "oracle"
                                       ELSE IF inner THEN "inner" ELSE "micro",
                             reply |-> NoReply]],
      [count |-> sh.count, cache |-> mem.cache,
       requests |-> mem.requests + (IF sh.asked THEN 1 ELSE 0)],
      0, ~sh.asked)

\* hScore: await getSmartHeuristic(cube, goalCube), up to the await.  The
\* call advances the counter.  (Where no request is made, the reply handed
\* to getSmartHeuristic is not looked at.)
AwaitHeuristic(inv, mem, at, k, currentState, cube, configured) ==
  Awaiting(inv, mem, at, k, currentState, cube,
           getSmartHeuristic(cube, inv.goalCube, configured, mem.count, mem.cache,
                             ThrowReply),
           (mem.count + 1) % OracleCadence = 0 /\ configured)

\* applyMove(currentState.cube, move) for each move of validMoves.
Neighbors(cube) == [j \in 1..Len(validMoves) |-> applyMove(cube, validMoves[j])]

\* The loop goes from the k-th move to the `next`-th: the neighbours
\* between have their key in visited and are passed over; the next-th, if
\* there is one (awaits), has its estimate asked for; past the last move,
\* setTimeout(processNextState, 0).
ExpandTo(inv, mem, k, next, awaits, currentState, neighborCube, configured) ==
  IF awaits
  THEN AwaitHeuristic([inv EXCEPT !.generated =
                                    @ \cup {hashCubeState(neighborCube[j]) : j \in k..next}],
                      mem, "neighbor", next, currentState, neighborCube[next], configured)
  ELSE Ran([inv EXCEPT !.generated =
                         @ \cup {hashCubeState(neighborCube[j]) : j \in k..next},
                       !.frame = NoFrame,
                       !.scheduled = @ + 1,
                       !.lastStep = "expanded"],
           mem, 1, FALSE)

\* The loop from the k-th move on, `unvisited` being the moves from there
\* on whose neighbour has no key in visited.
ExpandUnvisited(inv, mem, k, unvisited, currentState, neighborCube, configured) ==
  ExpandTo(inv, mem, k, IF unvisited = {} THEN Len(validMoves) ELSE Min(unvisited),
           unvisited # {}, currentState, neighborCube, configured)

\* The loop over validMoves of one expansion, from the k-th move on, up to
\* its next await.
ExpandOver(inv, mem, k, currentState, neighborCube, configured) ==
  ExpandUnvisited(inv, mem, k,
                  {j \in k..Len(validMoves) :
                     ~VisitedHas(inv.visited, hashCubeState(neighborCube[j]))},
                  currentState, neighborCube, configured)

\* for (const move of validMoves) { ... } setTimeout(processNextState, 0),
\* from the k-th move on, up to its next await.
ExpandFrom(inv, mem, k, currentState, configured) ==
  ExpandOver(inv, mem, k, currentState, Neighbors(currentState.cube), configured)

\* A cube of one colour but for one sticker: the 12 moves take it to few
\* different cubes.
oneStickerCube(f, i) ==
  [createSolvedCube EXCEPT ![1] = Fill9(0), ![2] = Fill9(0), ![3] = Fill9(0),
                           ![4] = Fill9(0), ![5] = Fill9(0), ![6] = Fill9(0),
                           ![f + 1][i + 1] = 1]

\* Longer scrambles handed to solveCube.
FixedScrambles ==
  {<<"U", "U'">>, <<"U", "R">>, <<"R", "U2", "D'">>, <<"U", "R", "U'", "R'">>}

\* The arguments solveCube is called with: a scramble and the solved cube as
\* the page calls it, and, as an exported function, other pairs of cubes: a
\* scrambled goal, and cubes of one colour but for one sticker (none of
\* which the moves take to the solved cube).
SolveInputs ==
  {<<s, createSolvedCube>> : s \in UNION {scrambleCube(n) : n \in 0..MaxScramble}}
    \cup {<<applyMoves(createSolvedCube, ms), createSolvedCube>> : ms \in FixedScrambles}
    \cup {<<createSolvedCube, s>> : s \in scrambleCube(1)}
    \cup {<<oneStickerCube(0, 1), createSolvedCube>>,
          <<oneStickerCube(0, 4), createSolvedCube>>,
          <<oneStickerCube(0, 1), oneStickerCube(5, 7)>>}

\* What the outstanding request may settle with: any of OracleReplies for
\* the first MaxOracleReplies requests of a search, an exception after.
RepliesNow ==
  IF oracleRequests <= MaxOracleReplies THEN OracleReplies ELSE {ThrowReply}

\* The arguments of the next call of solveCube: any of SolveInputs at
\* first; once a search has resolved, the same cube again (handleSolve
\* passes the cube on display and the solved cube).
InputsNow ==
  IF promise = "none" THEN SolveInputs ELSE {<<scrambledCube, goalCube>>}

\* A solveCube that leaves the cache of the search before in place.
CallSolveCubeKeepsCache(start, goal, mem, configured) ==
  AwaitHeuristic([NoInvocation EXCEPT !.promise = "pending",
                                      !.scrambledCube = start,
                                      !.goalCube = goal,
                                      !.generated = {hashCubeState(start)},
                                      !.lastStep = "start"],
                 [mem EXCEPT !.count = 0],
                 "start", 0, NoNode, start, configured)

\* solveCube(start, goal) up to its await of line 412: the counter and the
\* cache are reset, the frontier and the visited set are new and empty, the
\* start node's estimate is asked for (call number 1 of the search).
CallSolveCube(start, goal, mem, configured) ==
  AwaitHeuristic([NoInvocation EXCEPT !.promise = "pending",
                                      !.scrambledCube = start,
                                      !.goalCube = goal,
                                      !.generated = {hashCubeState(start)},
                                      !.lastStep = "start"],
                 [mem EXCEPT !.count = 0, !.cache = << >>],
                 "start", 0, NoNode, start, configured)

\* A resolve that loses the last move of the path.
ResolveWithoutLastMove(inv, moves, statesExplored) ==
  [inv EXCEPT !.promise = "fulfilled",
              !.result = Append(@, [moves |-> SubSeq(moves, 1, Len(moves) - 1),
                                    statesExplored |-> statesExplored])]

\* resolve({ moves, statesExplored, timeMs }); timeMs, a wall-clock
\* difference, is left out.
Resolve(inv, moves, statesExplored) ==
  [inv EXCEPT !.promise = "fulfilled",
              !.result = Append(@, [moves |-> moves, statesExplored |-> statesExplored])]

\* An empty frontier that resolves the promise but goes on to schedule the
\* next step.
StepExhaustedNoReturn(inv, mem) ==
  Ran([Resolve(inv, << >>, Cardinality(inv.visited)) EXCEPT !.lastStep = "exhausted",
                                                              !.scheduled = @ + 1],
      mem, 1, FALSE)

\* if (openSet.length === 0) { resolve({ moves: [], ... }); return }
StepExhausted(inv, mem) ==
  Ran([Resolve(inv, << >>, Cardinality(inv.visited)) EXCEPT !.lastStep = "exhausted"],
      mem, 0, FALSE)

\* A duplicate branch that schedules the next step twice.
StepDuplicateTwice(inv, mem, rest) ==
  Ran([inv EXCEPT !.openSet = rest, !.scheduled = @ + 2, !.lastStep = "duplicate"],
      mem, 2, FALSE)

\* if (visited.has(currentHash)) { setTimeout(processNextState, 0); return }
StepDuplicate(inv, mem, rest) ==
  Ran([inv EXCEPT !.openSet = rest, !.scheduled = @ + 1, !.lastStep = "duplicate"],
      mem, 1, FALSE)

\* A goal branch that reads visited.size before the popped key is added.
StepGoalStaleSize(inv, mem, currentState, currentHash, rest) ==
  Ran([Resolve(inv, currentState.moves, Cardinality(inv.visited))
         EXCEPT !.visited = VisitedAdd(inv.visited, currentHash),
                !.openSet = rest,
                !.lastStep = "goal"],
      mem, 0, FALSE)

\* visited.add(currentHash); if (isGoal(...)) { resolve({ moves:
\* currentState.moves, statesExplored: visited.size, ... }); return }
StepGoal(inv, mem, currentState, currentHash, rest) ==
  Ran([Resolve(inv, currentState.moves,
               Cardinality(VisitedAdd(inv.visited, currentHash)))
         EXCEPT !.visited = VisitedAdd(inv.visited, currentHash),
                !.openSet = rest,
                !.lastStep = "goal"],
      mem, 0, FALSE)

\* visited.add(currentHash); for (const move of validMoves) { ... up to the
\* first await of the loop
StepExpand(inv, mem, currentState, currentHash, rest, configured) ==
  ExpandFrom([inv EXCEPT !.visited = VisitedAdd(inv.visited, currentHash),
                         !.openSet = rest,
                         !.expanded = Append(@, currentHash),
                         !.lastStep = "popped"],
             mem, 1, currentState, configured)

\* processNextState with currentState taken off the sorted frontier, `rest`
\* left on it: the duplicate, goal and expansion branches.
processNextStatePopped(inv, mem, currentState, currentHash, rest, configured) ==
  IF VisitedHas(inv.visited, currentHash)
  THEN StepDuplicate(inv, mem, rest)
  ELSE IF isGoal(currentState.cube, inv.goalCube)
       THEN StepGoal(inv, mem, currentState, currentHash, rest)
       ELSE StepExpand(inv, mem, currentState, currentHash, rest, configured)

\* const currentState = openSet.shift()!  const currentHash = ...
processNextStateSorted(inv, mem, sorted, configured) ==
  processNextStatePopped(inv, mem, Head(sorted), hashCubeState(Head(sorted).cube),
                         Tail(sorted), configured)

\* A call of processNextState, up to its first await or its return.
CallProcessNextState(inv, mem, configured) ==
  IF inv.openSet = << >>
  THEN StepExhausted([inv EXCEPT !.steps = @ + 1], mem)
  ELSE processNextStateSorted([inv EXCEPT !.steps = @ + 1], mem,
                              SortByFScore(inv.openSet), configured)

\* getAIEnhancedHeuristic goes on from its await of line 112 with the reply
\* the request settled with: it caches and returns the estimate, or returns
\* the local one, and getSmartHeuristic, which awaits it (line 132), goes on
\* in one more microtask.
ResumeSettled(inv, mem, settled) ==
  Ran([inv EXCEPT !.resumes = @ + 1, !.frame.hScore = settled.h,
                  !.frame.waits = "inner", !.frame.reply = NoReply],
      [mem EXCEPT !.cache = settled.cache],
      0, TRUE)

\* A microtask of the invocation runs.  Where the request has settled,
\* getAIEnhancedHeuristic goes on.  Where getSmartHeuristic waited itself,
\* it returns and the call that awaits it goes on in one more microtask.
\* Otherwise the call goes on after its await.  At the start: the start
\* node is pushed and processNextState is called (line 470, a direct
\* call).  In the loop: the neighbour is pushed and the loop goes on.
ResumeWithHeuristic(inv, mem, configured) ==
  LET awaited == inv.frame
      went == [inv EXCEPT !.resumes = @ + 1, !.frame = NoFrame]
  IN  IF awaited.waits = "settled"
      THEN ResumeSettled(inv, mem,
                         getAIEnhancedHeuristicSettled(awaited.cube, inv.goalCube,
                                                       mem.cache, awaited.reply))
      ELSE IF awaited.waits = "inner"
      THEN Ran([inv EXCEPT !.resumes = @ + 1, !.frame.waits = "micro"], mem, 0, TRUE)
      ELSE IF awaited.at = "start"
      THEN LET initialState == Node(awaited.cube, 0, awaited.hScore, << >>)
           IN  CallProcessNextState([went EXCEPT !.openSet = Append(@, initialState),
                                                 !.pushLog = Append(@, initialState)],
                                    mem, configured)
      ELSE LET currentState == awaited.currentState
               neighborState == Node(awaited.cube, currentState.gScore + 1,
                                     awaited.hScore,
                                     PathWith(currentState.moves, validMoves[awaited.k]))
           IN  ExpandFrom([went EXCEPT !.openSet = Append(@, neighborState),
                                       !.pushLog = Append(@, neighborState)],
                          mem, awaited.k + 1, currentState, configured)

\* The request of line 112 settles with `reply`: the promise that
\* getAIEnhancedHeuristic awaits is fulfilled or rejected, and its
\* continuation is a microtask.  Nothing of the module's code runs yet.
SettleRequest(inv, mem, reply) ==
  Ran([inv EXCEPT !.frame.waits = "settled", !.frame.reply = reply], mem, 0, TRUE)

-----------------------------------------------------------------------------
(* The event loop.  microtasks holds, in order, who goes on when the code   *)
(* that runs returns: 1 this invocation, 2 the second invocation, 0         *)
(* handleSolve waiting on the promise.  timers holds the invocations whose  *)
(* setTimeout(processNextState, 0) is due, in the order set.  A timer, a    *)
(* settled request or an event of the page runs when microtasks is empty.   *)

Macrotask == microtasks = << >>

\* This invocation and the module's state as records.
This ==
  [promise |-> promise, result |-> result, scheduled |-> scheduled,
   scrambledCube |-> scrambledCube, goalCube |-> goalCube,
   openSet |-> openSet, visited |-> visited, frame |-> frame,
   generated |-> generated, expanded |-> expanded, lastStep |-> lastStep,
   steps |-> steps, resumes |-> resumes, pushLog |-> pushLog]
Mem == [count |-> heuristicCallCount, cache |-> aiHeuristicCache, requests |-> oracleRequests]

\* `n` setTimeout calls of invocation `id`.
Timeouts(id, n) == [i \in 1..n |-> id]

\* The module's state after a run.
MemBecomes(ran) ==
  /\ heuristicCallCount' = ran.mem.count
  /\ aiHeuristicCache' = ran.mem.cache
  /\ oracleRequests' = ran.mem.requests

\* This invocation after a run that left `queue` in microtasks and `due` in
\* timers.  A promise resolved while handleSolve waits on it puts
\* handleSolve's continuation in microtasks.
Becomes(ran, queue, due) ==
  /\ promise' = ran.inv.promise
  /\ result' = ran.inv.result
  /\ scheduled' = ran.inv.scheduled
  /\ scrambledCube' = ran.inv.scrambledCube
  /\ goalCube' = ran.inv.goalCube
  /\ openSet' = ran.inv.openSet
  /\ visited' = ran.inv.visited
  /\ frame' = ran.inv.frame
  /\ generated' = ran.inv.generated
  /\ expanded' = ran.inv.expanded
  /\ lastStep' = ran.inv.lastStep
  /\ steps' = ran.inv.steps
  /\ resumes' = ran.inv.resumes
  /\ pushLog' = ran.inv.pushLog
  /\ MemBecomes(ran)
  /\ microtasks' = queue \o (IF ran.micro THEN <<1>> ELSE << >>)
                         \o (IF isSolving /\ promise = "pending"
                                /\ ran.inv.promise = "fulfilled"
                             THEN <<0>> ELSE << >>)
  /\ timers' = due \o Timeouts(1, ran.timeouts)

\* The second invocation after a run.
OtherBecomes(ran, queue, due) ==
  /\ other' = ran.inv
  /\ MemBecomes(ran)
  /\ microtasks' = queue \o (IF ran.micro THEN <<2>> ELSE << >>)
  /\ timers' = due \o Timeouts(2, ran.timeouts)

\* solveCube(start, goal) is called.  The page's state is the caller's to
\* change or leave alone.
solveCube(start, goal) ==
  /\ promise \in {"none", "fulfilled"}
  /\ \E ran \in {CallSolveCube(start, goal, [Mem EXCEPT !.requests = 0], genAI)} :
       Becomes(ran, microtasks, timers)
  /\ abandoned' = FALSE
  /\ UNCHANGED <<moveVars, genAI, other>>

\* The microtask of this invocation runs: the await it is at returns (of
\* the request, line 112; of getAIEnhancedHeuristic, line 132; of
\* getSmartHeuristic, lines 412 and 457).
heuristicAwaited ==
  /\ microtasks # << >>
  /\ Head(microtasks) = 1
  /\ \E ran \in {ResumeWithHeuristic(This, Mem, genAI)} :
       Becomes(ran, Tail(microtasks), timers)
  /\ UNCHANGED <<moveVars, genAI, abandoned, other, pageVars>>

\* The timer of this invocation fires: processNextState is called.
processNextState ==
  /\ Macrotask
  /\ timers # << >>
  /\ Head(timers) = 1
  /\ \E ran \in {CallProcessNextState([This EXCEPT !.scheduled = @ - 1], Mem, genAI)} :
       Becomes(ran, microtasks, Tail(timers))
  /\ UNCHANGED <<moveVars, genAI, abandoned, other, pageVars>>

\* The request this invocation waits for settles.
generateContentSettles(reply) ==
  /\ Macrotask
  /\ frame.waits = "oracle"
  /\ \E ran \in {SettleRequest(This, Mem, reply)} :
       Becomes(ran, microtasks, timers)
  /\ UNCHANGED <<moveVars, genAI, abandoned, other, pageVars>>

-----------------------------------------------------------------------------
(* The search specification: solveCube is called and runs, from await to    *)
(* await and from timer to timer, and once it has resolved it may be called *)
(* again.                                                                   *)

\* No playback timer is running.
NoInterval == [live |-> FALSE, solution |-> << >>, moveIndex |-> 0]

\* The page as it is first rendered (the useState and useRef initial values).
NoPage ==
  /\ solution = << >>
  /\ currentMoveIndex = -1
  /\ isPlaying = FALSE
  /\ isSolving = FALSE
  /\ intervalRef = NoInterval
  /\ presses = 0

Init ==
  /\ cubeState = createSolvedCube
  /\ origin = "solved"
  /\ depth = 0
  /\ genAI \in BOOLEAN
  /\ NoSearch
  /\ NoPage

Next ==
  \/ \E input \in InputsNow : solveCube(input[1], input[2]) /\ UNCHANGED pageVars
  \/ heuristicAwaited
  \/ processNextState
  \/ \E reply \in RepliesNow : generateContentSettles(reply)

Spec == Init /\ [][Next]_vars

\* A callback handed to setTimeout is run: the steps of Spec that count one
\* more call of processNextState while one is scheduled are the steps
\* processNextState takes.
ScheduledStepRuns == scheduled > 0 /\ steps' = steps + 1

\* A microtask is run: the steps that count one more await returned.
MicrotaskRuns == microtasks # << >> /\ resumes' = resumes + 1

\* The same with the event loop's guarantees: a scheduled callback runs,
\* and so does a microtask.  Nothing makes a request settle.
FairSpec == Spec /\ WF_steps(ScheduledStepRuns) /\ WF_resumes(MicrotaskRuns)

-----------------------------------------------------------------------------
(* The page: while a search runs, only the Solve button is disabled; Reset  *)
(* stays enabled and discards the cube the search is solving.               *)

\* handleReset: the solved cube is put on display, the solution is cleared
\* and the playback timer stopped.  It has no handle on a search that is
\* running; if one is, the caller has given it up.  (The statistics it
\* also resets are not part of the model.)
handleReset ==
  /\ Macrotask
  /\ cubeState' = createSolvedCube
  /\ solution' = << >>
  /\ currentMoveIndex' = -1
  /\ isPlaying' = FALSE
  /\ intervalRef' = NoInterval
  /\ abandoned' = (abandoned \/ promise = "pending")
  /\ UNCHANGED <<origin, depth, heuristicVars, searchVars, loopVars, other, isSolving>>

-----------------------------------------------------------------------------
(* Two invocations of solveCube: the second is called while the first may   *)
(* be running, at one of its awaits or between two of its calls of          *)
(* processNextState.  Each has its promise, frontier and visited set        *)
(* (locals of its call); heuristicCallCount and aiHeuristicCache are the    *)
(* module's.                                                                *)

\* The arguments the two invocations are called with.
ConcurrentInputs ==
  {<<applyMove(createSolvedCube, "R"), createSolvedCube>>,
   <<applyMove(createSolvedCube, "U2"), createSolvedCube>>,
   <<oneStickerCube(0, 4), createSolvedCube>>}

\* The arguments of a call of an invocation whose promise is `called`: each
\* of the two is called once.
ConcurrentInputsNow(called) == IF called = "none" THEN ConcurrentInputs ELSE {}

\* solveCube(start, goal), second invocation, is called.
solveCubeOther(start, goal) ==
  /\ other.promise = "none"
  /\ \E ran \in {CallSolveCube(start, goal, Mem, genAI)} :
       OtherBecomes(ran, microtasks, timers)
  /\ UNCHANGED <<moveVars, genAI, invocationVars, abandoned, pageVars>>

\* The microtask of the second invocation runs.
heuristicAwaitedOther ==
  /\ microtasks # << >>
  /\ Head(microtasks) = 2
  /\ \E ran \in {ResumeWithHeuristic(other, Mem, genAI)} :
       OtherBecomes(ran, Tail(microtasks), timers)
  /\ UNCHANGED <<moveVars, genAI, invocationVars, abandoned, pageVars>>

\* The timer of the second invocation fires.
processNextStateOther ==
  /\ Macrotask
  /\ timers # << >>
  /\ Head(timers) = 2
  /\ \E ran \in {CallProcessNextState([other EXCEPT !.scheduled = @ - 1], Mem, genAI)} :
       OtherBecomes(ran, microtasks, Tail(timers))
  /\ UNCHANGED <<moveVars, genAI, invocationVars, abandoned, pageVars>>

\* The request the second invocation waits for settles.
generateContentSettlesOther(reply) ==
  /\ Macrotask
  /\ other.frame.waits = "oracle"
  /\ \E ran \in {SettleRequest(other, Mem, reply)} :
       OtherBecomes(ran, microtasks, timers)
  /\ UNCHANGED <<moveVars, genAI, invocationVars, abandoned, pageVars>>

NextConcurrent ==
  \/ \E input \in ConcurrentInputsNow(promise) :
       solveCube(input[1], input[2]) /\ UNCHANGED pageVars
  \/ heuristicAwaited
  \/ processNextState
  \/ \E reply \in RepliesNow : generateContentSettles(reply)
  \/ \E input \in ConcurrentInputsNow(other.promise) :
       solveCubeOther(input[1], input[2])
  \/ heuristicAwaitedOther
  \/ processNextStateOther
  \/ \E reply \in RepliesNow : generateContentSettlesOther(reply)

SpecConcurrent == Init /\ [][NextConcurrent]_vars

-----------------------------------------------------------------------------
(* The move-engine specification: the cube is turned with the move buttons  *)
(* and the input box of the page.                                           *)

InitMoves ==
  /\ origin \in {"solved", "labelled"}
  /\ cubeState = IF origin = "solved" THEN createSolvedCube ELSE labelledCube
  /\ depth = 0
  /\ genAI = FALSE
  /\ NoSearch
  /\ NoPage

\* handleManualMove(move): the cube is turned, the solution on display is
\* cleared; the playback timer is left alone.
handleManualMove(move) ==
  /\ Macrotask
  /\ depth < MaxDepth
  /\ cubeState' = applyMove(cubeState, move)
  /\ depth' = depth + 1
  /\ solution' = << >>
  /\ currentMoveIndex' = -1
  /\ UNCHANGED <<origin, heuristicVars, searchVars, loopVars, abandoned, other,
                 isPlaying, isSolving, intervalRef>>

\* handleManualMoveInput with `text` in the input box.  The moves applied
\* count towards depth.  The solution on display is cleared; the playback
\* timer is left alone.
handleManualMoveInput(text) ==
  /\ Macrotask
  /\ depth + Len(SelectSeq(TokensOf(text), LAMBDA s : Includes(validMoves, s))) <= MaxDepth
  /\ cubeState' = ManualMoveResult(cubeState, text)
  /\ depth' = depth + Len(SelectSeq(TokensOf(text), LAMBDA s : Includes(validMoves, s)))
  /\ solution' = << >>
  /\ currentMoveIndex' = -1
  /\ UNCHANGED <<origin, heuristicVars, searchVars, loopVars, abandoned, other,
                 isPlaying, isSolving, intervalRef>>

NextMoves ==
  \/ \E k \in 1..Len(validMoves) : handleManualMove(validMoves[k]) /\ UNCHANGED presses
  \/ \E text \in ManualInputs : handleManualMoveInput(text) /\ UNCHANGED presses

SpecMoves == InitMoves /\ [][NextMoves]_vars

-----------------------------------------------------------------------------
(* The page specification: the user presses the buttons of the page in any  *)
(* order while a search and the playback timer run.  Only the Solve button  *)
(* is ever disabled (while solving, and on a solved cube); the play button  *)
(* is rendered while the solution on display is not empty.                  *)

\* Buttons the user presses in one session of the page.
MaxPresses == 5

\* One more button is pressed.
Press == presses < MaxPresses /\ presses' = presses + 1

\* The move buttons and input texts pressed in the model.
PressedMoves == {"U", "R'"}
TypedTexts == {CodeUnits("R x")}

\* Scrambles handleScramble draws: scrambleCube(1) can draw the first,
\* scrambleCube(2) the second (the number of moves is the user's to set).
ScrambleDraws == {<<"R">>, <<"U", "R">>}

\* handleScramble: a scrambled cube is put on display (depth counts its
\* moves), the solution is cleared; the playback timer is left alone.
handleScramble ==
  /\ Macrotask
  /\ \E drawn \in ScrambleDraws :
       /\ cubeState' = applyMoves(createSolvedCube, drawn)
       /\ depth' = Len(drawn)
  /\ solution' = << >>
  /\ currentMoveIndex' = -1
  /\ UNCHANGED <<origin, heuristicVars, searchVars, loopVars, abandoned, other,
                 isPlaying, isSolving, intervalRef>>

\* handleSolve up to its await: nothing on a solved cube (and the button is
\* disabled while solving); otherwise solveCube is called with the cube on
\* display and the solved cube.
handleSolve ==
  /\ Macrotask
  /\ ~isSolving
  /\ ~isGoal(cubeState, createSolvedCube)
  /\ isSolving' = TRUE
  /\ solveCube(cubeState, createSolvedCube)
  /\ UNCHANGED <<solution, currentMoveIndex, isPlaying, intervalRef>>

\* handleSolve after its await, a microtask of the step that resolved the
\* promise: a result with moves is put on display.
handleSolveResumes ==
  /\ microtasks # << >>
  /\ Head(microtasks) = 0
  /\ microtasks' = Tail(microtasks)
  /\ IF Len(result[Len(result)].moves) > 0
     THEN /\ solution' = result[Len(result)].moves
          /\ currentMoveIndex' = -1
     ELSE UNCHANGED <<solution, currentMoveIndex>>
  /\ isSolving' = FALSE
  /\ UNCHANGED <<moveVars, heuristicVars, searchVars, timers, abandoned, other,
                 isPlaying, intervalRef, presses>>

\* handlePlaySolution: pause while playing; otherwise start a timer whose
\* callback closes over the solution on display and its own moveIndex.
handlePlaySolution ==
  /\ Macrotask
  /\ solution # << >>
  /\ IF isPlaying
     THEN /\ isPlaying' = FALSE
          /\ intervalRef' = NoInterval
     ELSE /\ isPlaying' = TRUE
          /\ intervalRef' = [live |-> TRUE, solution |-> solution,
                             moveIndex |-> currentMoveIndex + 1]
  /\ UNCHANGED <<moveVars, heuristicVars, searchVars, loopVars, abandoned, other,
                 solution, currentMoveIndex, isSolving>>

\* The timer's callback: past the end of the solution it closed over it
\* stops the timer; otherwise it applies that solution's next move to the
\* cube on display.
playbackTick ==
  /\ Macrotask
  /\ intervalRef.live
  /\ IF intervalRef.moveIndex >= Len(intervalRef.solution)
     THEN /\ isPlaying' = FALSE
          /\ intervalRef' = NoInterval
          /\ UNCHANGED <<cubeState, currentMoveIndex>>
     ELSE /\ cubeState' = applyMove(cubeState, intervalRef.solution[intervalRef.moveIndex + 1])
          /\ currentMoveIndex' = intervalRef.moveIndex
          /\ intervalRef' = [intervalRef EXCEPT !.moveIndex = @ + 1]
          /\ UNCHANGED isPlaying
  /\ UNCHANGED <<origin, depth, heuristicVars, searchVars, loopVars, abandoned, other,
                 solution, isSolving, presses>>

\* The page is opened without an oracle key.
InitUI ==
  /\ cubeState = createSolvedCube
  /\ origin = "solved"
  /\ depth = 0
  /\ genAI = FALSE
  /\ NoSearch
  /\ NoPage

NextUI ==
  \/ \E move \in PressedMoves : Press /\ handleManualMove(move)
  \/ \E text \in TypedTexts : Press /\ handleManualMoveInput(text)
  \/ Press /\ handleScramble
  \/ Press /\ handleReset
  \/ Press /\ handleSolve
  \/ heuristicAwaited
  \/ processNextState
  \/ handleSolveResumes
  \/ Press /\ handlePlaySolution
  \/ playbackTick

SpecUI == InitUI /\ [][NextUI]_vars

-----------------------------------------------------------------------------
(* Properties of the move engine, checked under SpecMoves. *)

Moves == {validMoves[k] : k \in 1..Len(validMoves)}
Cells == (0..5) \X (0..8)
At(cube, cell) == cube[cell[1] + 1][cell[2] + 1]
Changed(before, after) == {c \in Cells : At(before, c) # At(after, c)}
Uniform(face) == \A j \in 1..9 : face[j] = face[1]

Prime(X) == CASE X = "U" -> "U'" [] X = "D" -> "D'" [] X = "R" -> "R'" [] X = "L" -> "L'"
Half(X) == CASE X = "U" -> "U2" [] X = "D" -> "D2" [] X = "R" -> "R2" [] X = "L" -> "L2"
Faces == {"U", "D", "R", "L"}

\* X and X' are each other's inverse, X2 is its own.
Inverse(move) ==
  IF move \in Faces THEN Prime(move)
  ELSE IF \E X \in Faces : move = Prime(X) THEN CHOOSE X \in Faces : move = Prime(X)
  ELSE move

\* C2: a move followed by its inverse gives back the cube, facelet for
\* facelet, for each of the 12 moves and every cube the caller can hold.
MoveInvertibility ==
  \A X \in Moves : applyMove(applyMove(cubeState, X), Inverse(X)) = cubeState

\* A scrambled cube, two moves or more from the solved one, whose Up face is
\* no longer of one colour and which U turns visibly.
MoveInvertibilityWitness ==
  /\ origin = "solved"
  /\ depth >= 2
  /\ ~Uniform(cubeState[1])
  /\ applyMove(cubeState, "U") # cubeState
  /\ applyMove(applyMove(cubeState, "U"), "U'") = cubeState

\* C3: for each face X, X three times equals X' once, and X2 once equals X
\* twice.
TurnConsistency ==
  \A X \in Faces :
    /\ applyMoves(cubeState, <<X, X, X>>) = applyMove(cubeState, Prime(X))
    /\ applyMove(cubeState, Half(X)) = applyMoves(cubeState, <<X, X>>)

\* A scrambled cube on which R, R twice and R three times all differ from
\* the cube and from each other.
TurnConsistencyWitness ==
  /\ origin = "solved"
  /\ depth >= 2
  /\ ~Uniform(cubeState[4])
  /\ LET r1 == applyMove(cubeState, "R")
         r2 == applyMove(r1, "R")
         r3 == applyMove(r2, "R")
     IN  /\ Cardinality({cubeState, r1, r2, r3}) = 4
         /\ r3 = applyMove(cubeState, "R'")
         /\ r2 = applyMove(cubeState, "R2")

\* C4: a quarter turn applied four times, or a half turn applied twice,
\* gives back the cube.
MoveClosure ==
  \A X \in Faces :
    /\ applyMoves(cubeState, <<X, X, X, X>>) = cubeState
    /\ applyMoves(cubeState, <<Prime(X), Prime(X), Prime(X), Prime(X)>>) = cubeState
    /\ applyMoves(cubeState, <<Half(X), Half(X)>>) = cubeState

\* A scrambled cube that L' and L2 both change and that four L' and two L2
\* give back.
MoveClosureWitness ==
  /\ origin = "solved"
  /\ depth >= 2
  /\ ~Uniform(cubeState[2])
  /\ applyMove(cubeState, "L'") # cubeState
  /\ applyMove(cubeState, "L2") # cubeState
  /\ applyMoves(cubeState, <<"L'", "L'", "L'", "L'">>) = cubeState
  /\ applyMoves(cubeState, <<"L2", "L2">>) = cubeState

\* The tokens handed to applyMove: the 12 moves and one it does not know.
Tokens == Moves \cup {"F"}
InputRefs == <<1, 2, 3, 4, 5, 6>>

\* C5: applyMove leaves the six arrays of its argument as they were, returns
\* a cube none of whose arrays is an array of the argument, and a later write
\* to the returned cube does not change the argument.  The argument's arrays
\* are the heap cubeState, referenced by InputRefs.
NoMutationNoAliasing ==
  \A m \in Tokens :
    LET r == applyMoveOnHeap(cubeState, InputRefs, m)
    IN  /\ Facelets(r.heap, InputRefs) = cubeState
        /\ \A f \in 1..6 : \A g \in 1..6 : r.faces[f] # InputRefs[g]
        /\ \A f \in 1..6 : \A j \in 1..9 :
             Facelets([r.heap EXCEPT ![r.faces[f]][j] = 99], InputRefs) = cubeState

\* A scrambled cube that R changes: the returned cube differs from the
\* argument, which is still intact on the heap.
NoMutationNoAliasingWitness ==
  /\ depth >= 1
  /\ LET r == applyMoveOnHeap(cubeState, InputRefs, "R")
     IN  /\ Facelets(r.heap, r.faces) # cubeState
         /\ Facelets(r.heap, InputRefs) = cubeState

Count(cube, v) == Cardinality({c \in Cells : At(cube, c) = v})

\* C6: every cube reached from the solved cube by the 12 moves holds each of
\* the values 0..5 exactly 9 times.
ColourCount ==
  origin = "solved" => \A v \in 0..5 : Count(cubeState, v) = 9

\* A cube three moves from the solved one with three colours or more on its
\* Up face.
ColourCountWitness ==
  /\ origin = "solved"
  /\ depth >= 3
  /\ Cardinality({cubeState[1][j] : j \in 1..9}) >= 3
  /\ \A v \in 0..5 : Count(cubeState, v) = 9

Strip(faces, idx) == faces \X idx
Frame(move) ==
  CASE move \in {"U", "U'", "U2"} -> Strip({0}, 0..8) \cup Strip({1, 2, 3, 4}, {0, 1, 2})
    [] move \in {"D", "D'", "D2"} -> Strip({5}, 0..8) \cup Strip({1, 2, 3, 4}, {6, 7, 8})
    [] move \in {"R", "R'", "R2"} ->
         Strip({3}, 0..8) \cup Strip({0, 2, 5}, {2, 5, 8}) \cup Strip({4}, {0, 3, 6})
    [] move \in {"L", "L'", "L2"} ->
         Strip({1}, 0..8) \cup Strip({0, 2, 5}, {0, 3, 6}) \cup Strip({4}, {2, 5, 8})

\* C7: a move changes facelets only on the turned face and on the twelve
\* bordering strip cells; the 33 other facelets, and the centre of every
\* face, are the same before and after.
MoveFrame ==
  \A m \in Moves :
    LET after == applyMove(cubeState, m)
    IN  /\ Cardinality(Cells \ Frame(m)) = 33
        /\ Changed(cubeState, after) \subseteq Frame(m)
        /\ \A f \in 0..5 : At(after, <<f, 4>>) = At(cubeState, <<f, 4>>)

\* The cube of 54 different facelets after a move: a further R changes 20
\* facelets, all of them in R's frame.
MoveFrameWitness ==
  /\ origin = "labelled"
  /\ depth >= 1
  /\ Cardinality(Changed(cubeState, applyMove(cubeState, "R"))) = 20
  /\ Changed(cubeState, applyMove(cubeState, "R")) \subseteq Frame("R")

\* Tokens that are none of the 12 moves.
UnknownTokens == {"F", "B", "u", "U3", "UR", "x", "'", ""}

\* Texts of the input box with the moves a reader takes from them.  Zero
\* width space (8203) is no white space; U followed by it, or by e acute
\* (233), is no move.
ManualCases ==
  {[text |-> << >>, moves |-> << >>],
   [text |-> CodeUnits("F"), moves |-> << >>],
   [text |-> CodeUnits("u"), moves |-> << >>],
   [text |-> CodeUnits("UR"), moves |-> << >>],
   [text |-> CodeUnits("U R'"), moves |-> <<"U", "R'">>],
   [text |-> CodeUnits("U") \o <<9>> \o CodeUnits("R2"), moves |-> <<"U", "R2">>],
   [text |-> CodeUnits("F L2"), moves |-> <<"L2">>],
   [text |-> CodeUnits(" D'  x U2 "), moves |-> <<"D'", "U2">>],
   [text |-> CodeUnits("R U3 L'") \o <<10>>, moves |-> <<"R", "L'">>],
   [text |-> CodeUnits("U") \o <<13>> \o CodeUnits("R"), moves |-> <<"U", "R">>],
   [text |-> <<12>> \o CodeUnits("D2") \o <<13, 10>> \o CodeUnits("L"),
    moves |-> <<"D2", "L">>],
   [text |-> CodeUnits("U") \o <<11>> \o CodeUnits("R"), moves |-> <<"U", "R">>],
   [text |-> <<11>> \o CodeUnits("U"), moves |-> <<"U">>],
   [text |-> <<160>> \o CodeUnits("D") \o <<5760>> \o CodeUnits("L'") \o <<65279>>,
    moves |-> <<"D", "L'">>],
   [text |-> CodeUnits("U") \o <<8195>> \o CodeUnits("R"), moves |-> <<"U", "R">>],
   [text |-> <<8192>> \o CodeUnits("L") \o <<8202, 8232>> \o CodeUnits("D'") \o <<8233>>,
    moves |-> <<"L", "D'">>],
   [text |-> CodeUnits("R2") \o <<8239>> \o CodeUnits("U") \o <<8287, 12288>>
               \o CodeUnits("D2"),
    moves |-> <<"R2", "U", "D2">>],
   [text |-> CodeUnits("U") \o <<8203>> \o CodeUnits("R"), moves |-> << >>],
   [text |-> CodeUnits("U") \o <<233>>, moves |-> << >>]}

\* The white space of the program's strings, and texts of a move between
\* two code units.
WhiteSpace ==
  (9..13) \cup {32, 160, 5760} \cup (8192..8202) \cup {8232, 8233, 8239, 8287, 12288, 65279}
NoWhiteSpace == {8, 14, 31, 33, 133, 8191, 8203, 8204, 8288, 12287, 65278}

\* C19: applyMove with a token that is none of the 12 moves returns a cube
\* equal to its argument, and handleManualMoveInput sets the cube that the
\* recognised tokens of the text, applied in order, give: for the texts of
\* ManualCases; for U and R parted by any one of the 25 white space
\* characters, or with one in front or behind; and for U and R parted by a
\* character that is no white space, which is one unknown token.
UnknownTokensSkipped ==
  /\ \A token \in UnknownTokens : applyMove(cubeState, token) = cubeState
  /\ \A c \in ManualCases :
       ManualMoveResult(cubeState, c.text) = applyMoves(cubeState, c.moves)
  /\ \A unit \in WhiteSpace :
       /\ ManualMoveResult(cubeState, <<85, unit, 82>>) = applyMoves(cubeState, <<"U", "R">>)
       /\ ManualMoveResult(cubeState, <<unit, 85>>) = applyMove(cubeState, "U")
       /\ ManualMoveResult(cubeState, <<82, unit>>) = applyMove(cubeState, "R")
  /\ \A unit \in NoWhiteSpace :
       ManualMoveResult(cubeState, <<85, unit, 82>>) = cubeState

\* A scrambled cube on which the text " D'  x U2 " changes the cube, to what
\* D' then U2 give, on which U and R parted by a vertical tab or by an em
\* space (8195) give what U then R give, and on which F changes nothing.
UnknownTokensSkippedWitness ==
  /\ origin = "solved"
  /\ depth >= 1
  /\ ~Uniform(cubeState[3])
  /\ LET after == ManualMoveResult(cubeState, CodeUnits(" D'  x U2 "))
     IN  /\ after # cubeState
         /\ after = applyMove(applyMove(cubeState, "D'"), "U2")
  /\ LET after == ManualMoveResult(cubeState, <<85, 11, 82>>)
     IN  /\ after # cubeState
         /\ after = applyMove(applyMove(cubeState, "U"), "R")
  /\ LET after == ManualMoveResult(cubeState, <<85, 8195, 82>>)
     IN  /\ after # cubeState
         /\ after = applyMove(applyMove(cubeState, "U"), "R")
  /\ ManualMoveResult(cubeState, CodeUnits("F")) = cubeState

\* The colours of the facelets of a cube turned from the labelled cube:
\* label 9 f + i is a facelet of face f of the solved cube.
ColourOf(cube) ==
  <<[j \in 1..9 |-> cube[1][j] \div 9], [j \in 1..9 |-> cube[2][j] \div 9],
    [j \in 1..9 |-> cube[3][j] \div 9], [j \in 1..9 |-> cube[4][j] \div 9],
    [j \in 1..9 |-> cube[5][j] \div 9], [j \in 1..9 |-> cube[6][j] \div 9]>>

\* C20: isGoal(solved, solved) holds, and after any moves applied to the
\* solved cube isGoal(result, solved) holds exactly when the moves put every
\* one of the 54 facelets back in its place.  The labelled cube turned by
\* the moves shows where each facelet went; its colours are the solved cube
\* turned by the same moves.
GoalDetection ==
  /\ isGoal(createSolvedCube, createSolvedCube)
  /\ origin = "solved" => (isGoal(cubeState, createSolvedCube) <=> cubeState = createSolvedCube)
  /\ origin = "labelled" =>
       /\ isGoal(ColourOf(cubeState), createSolvedCube) <=> cubeState = labelledCube
       /\ \A X \in Moves :
            ColourOf(applyMove(cubeState, X)) = applyMove(ColourOf(cubeState), X)

\* Two moves or more have put every facelet back in its place (U then U',
\* say), and isGoal holds of the colours.
GoalDetectionWitness ==
  /\ origin = "labelled"
  /\ depth >= 2
  /\ cubeState = labelledCube
  /\ isGoal(ColourOf(cubeState), createSolvedCube)
  /\ ~isGoal(ColourOf(applyMove(cubeState, "D")), createSolvedCube)

\* The cube in hand, the solved cube, the 12 cubes one move away, and the 54
\* cubes that differ from the cube in hand by one facelet.
NearbyCubes ==
  {cubeState, createSolvedCube}
    \cup {applyMove(cubeState, X) : X \in Moves}
    \cup {[cubeState EXCEPT ![c[1] + 1][c[2] + 1] = (@ + 1) % 6] : c \in Cells}

\* C21: for cubes with facelets in 0..5, hashCubeState gives two cubes the
\* same key exactly when their 54 facelets are equal: over the cubes near the
\* cube in hand there are as many keys as cubes, and a cube that moves bring
\* back has its key back.
KeyFaithful ==
  origin = "solved" =>
    /\ Cardinality({hashCubeState(cube) : cube \in NearbyCubes}) = Cardinality(NearbyCubes)
    /\ Len(hashCubeState(cubeState)) = 59
    /\ hashCubeState(applyMoves(cubeState, <<"U", "U'">>)) = hashCubeState(cubeState)

\* A scrambled cube with 67 different cubes near it, each with a key of
\* its own.
KeyFaithfulWitness ==
  /\ origin = "solved"
  /\ depth >= 2
  /\ Cardinality(NearbyCubes) >= 67
  /\ hashCubeState(cubeState) # hashCubeState(createSolvedCube)
  /\ hashCubeState(cubeState) # hashCubeState([cubeState EXCEPT ![6][9] = (@ + 1) % 6])

\* C22: getDisplacedPiecesHeuristic is the least whole number that is at
\* least the number of differing facelets divided by 8; it is 0 for a cube
\* and itself and never negative.
LocalEstimateIsCeiling ==
  /\ getDisplacedPiecesHeuristic(cubeState, cubeState) = 0
  /\ \A goal \in {createSolvedCube, labelledCube} \cup {applyMove(cubeState, X) : X \in Moves} :
       LET d == Cardinality(Changed(cubeState, goal))
           h == getDisplacedPiecesHeuristic(cubeState, goal)
       IN  /\ h >= 0
           /\ 8 * h >= d
           /\ 8 * (h - 1) < d

\* One move from the solved cube 12 facelets differ and the estimate is 2.
LocalEstimateIsCeilingWitness ==
  /\ origin = "solved"
  /\ depth = 1
  /\ Cardinality(Changed(cubeState, createSolvedCube)) = 12
  /\ getDisplacedPiecesHeuristic(cubeState, createSolvedCube) = 2

-----------------------------------------------------------------------------
(* Properties of the search, checked under Spec. *)

\* The value the promise was resolved with.
Resolved == result[Len(result)]

\* C1: when the search resolves from the goal branch, the returned moves,
\* applied in order to the start cube, give a cube for which isGoal holds.
SolutionSoundness ==
  lastStep = "goal" =>
    /\ promise = "fulfilled"
    /\ isGoal(applyMoves(scrambledCube, Resolved.moves), goalCube)

\* A search that resolved from the goal branch with two moves or more, from
\* a start that is not the goal.
SolutionSoundnessWitness ==
  /\ lastStep = "goal"
  /\ Len(Resolved.moves) >= 2
  /\ ~isGoal(scrambledCube, goalCube)
  /\ isGoal(applyMoves(scrambledCube, Resolved.moves), goalCube)

\* The node the next call of processNextState pops: the first of the sorted
\* frontier.
NextPopped == Head(SortByFScore(openSet))

\* The step calls processNextState: from a timer, or from solveCube once
\* the start node is pushed; the frontier and the nodes pushed as the call
\* finds them, and the node it pops.
Called == steps' = steps + 1
StartNode == Node(frame.cube, 0, frame.hScore, << >>)
FrontierAtCall == IF frame.at = "start" THEN Append(openSet, StartNode) ELSE openSet
PushLogAtCall == IF frame.at = "start" THEN Append(pushLog, StartNode) ELSE pushLog
PoppedAtCall == Head(SortByFScore(FrontierAtCall))

\* The requests and awaits of the search that are outstanding, and its
\* calls of processNextState that are scheduled.
Outstanding == scheduled + (IF frame.waits = "none" THEN 0 ELSE 1)

\* The step is a callback of setTimeout of this search: a call of
\* processNextState from the event loop.
TimerFires == timers # << >> /\ Head(timers) = 1 /\ steps' = steps + 1

\* C8: during one search no key leaves the visited set, no key is expanded
\* twice, and a call of processNextState that pops a node whose key is
\* visited only drops that node: no neighbour is generated, no heuristic
\* call is made, the visited set stays as it is and the next call is
\* scheduled.
VisitedOnceOnly ==
  /\ [](\A i \in 1..Len(expanded) : \A j \in 1..Len(expanded) :
          expanded[i] = expanded[j] => i = j)
  /\ [][promise = "pending" =>
          /\ visited \subseteq visited'
          /\ (TimerFires /\ openSet # << >>
                /\ hashCubeState(NextPopped.cube) \in visited) =>
               /\ visited' = visited
               /\ openSet' = Tail(SortByFScore(openSet))
               /\ generated' = generated
               /\ expanded' = expanded
               /\ heuristicCallCount' = heuristicCallCount
               /\ promise' = "pending"
               /\ frame' = NoFrame
               /\ scheduled' = 1]_vars

\* A step has just dropped a popped node whose key was visited, in a
\* search that had expanded that key before and goes on.
VisitedOnceOnlyWitness ==
  /\ lastStep = "duplicate"
  /\ promise = "pending"
  /\ Len(expanded) >= 2
  /\ Cardinality(visited) >= 2

\* C9: during one search the visited set never gets smaller, it never holds
\* more keys than were generated (the start and every neighbour computed),
\* and the statesExplored of the result is the size of the visited set at
\* the step that resolved.
VisitedMonotonic ==
  /\ [](/\ Cardinality(visited) <= Cardinality(generated)
        /\ visited \subseteq generated
        /\ promise = "fulfilled" => Resolved.statesExplored = Cardinality(visited))
  /\ [][promise = "pending" => Cardinality(visited') >= Cardinality(visited)]_vars

\* A search that resolved after visiting several cubes, fewer than it
\* generated.
VisitedMonotonicWitness ==
  /\ promise = "fulfilled"
  /\ Resolved.statesExplored >= 3
  /\ Resolved.statesExplored = Cardinality(visited)
  /\ Cardinality(visited) < Cardinality(generated)

\* C10: a call of processNextState that finds the frontier empty resolves
\* the promise with no moves and the size of the visited set, changes
\* nothing else of the search and schedules no further call.
ExhaustionIsAValue ==
  [][(promise = "pending" /\ TimerFires /\ openSet = << >>) =>
       /\ promise' = "fulfilled"
       /\ result' = <<[moves |-> << >>, statesExplored |-> Cardinality(visited)]>>
       /\ scheduled' = 0
       /\ timers' = << >>
       /\ frame' = NoFrame
       /\ visited' = visited
       /\ openSet' = << >>]_vars

\* A search that ran out of nodes after visiting every cube the moves reach
\* from its start (12 of them), none of them the goal.
ExhaustionIsAValueWitness ==
  /\ lastStep = "exhausted"
  /\ promise = "fulfilled"
  /\ scheduled = 0
  /\ Resolved.moves = << >>
  /\ Resolved.statesExplored = 12
  /\ Cardinality(visited) = 12

\* The cubes a scramble of the model gives, and the paths that undo them.
ScrambledCubes ==
  UNION {scrambleCube(n) : n \in 0..MaxScramble}
    \cup {applyMoves(createSolvedCube, ms) : ms \in FixedScrambles}
RECURSIVE Undo(_)
Undo(ms) == IF ms = << >> THEN << >> ELSE Undo(Tail(ms)) \o <<Inverse(Head(ms))>>
KnownPaths ==
  {<< >>} \cup {<<X>> : X \in Moves} \cup {Undo(ms) : ms \in FixedScrambles}

\* Some path of KnownPaths takes the start cube of the search to its goal.
GoalIsReachable == \E ms \in KnownPaths : applyMoves(scrambledCube, ms) = goalCube

\* C11: a search whose goal the 12 moves reach from its start never finds
\* its frontier empty, and, every scheduled step being run, it resolves from
\* the goal branch.  (With an oracle, a request that never settles leaves
\* the search pending at its await, with no step scheduled.)
ReachableGoalIsFound ==
  /\ [](GoalIsReachable => lastStep # "exhausted")
  /\ ((promise = "pending" /\ GoalIsReachable)
        ~> (promise = "fulfilled" /\ lastStep = "goal"))

\* The search was called without an oracle, on a scramble, with the solved
\* cube as goal, and has resolved.
FallbackSearchDone ==
  /\ ~genAI
  /\ promise = "fulfilled"
  /\ goalCube = createSolvedCube
  /\ scrambledCube \in ScrambledCubes

\* C12 as stated: without an oracle, for every scramble, the moves returned
\* are not empty and take the scrambled cube to the goal.
FallbackNonEmpty ==
  FallbackSearchDone =>
    /\ Len(Resolved.moves) > 0
    /\ isGoal(applyMoves(scrambledCube, Resolved.moves), goalCube)

\* C12, amended: without an oracle, for every scramble, the search resolves
\* from the goal branch with moves that take the scrambled cube to the goal;
\* the moves are empty exactly when the scrambled cube is the goal already.
FallbackSolves ==
  FallbackSearchDone =>
    /\ lastStep = "goal"
    /\ isGoal(applyMoves(scrambledCube, Resolved.moves), goalCube)
    /\ (Len(Resolved.moves) = 0 <=> isGoal(scrambledCube, goalCube))

\* Without an oracle, the three-move scramble R U2 D' was solved in three
\* moves.
FallbackSolvesWitness ==
  /\ FallbackSearchDone
  /\ scrambledCube = applyMoves(createSolvedCube, <<"R", "U2", "D'">>)
  /\ Len(Resolved.moves) = 3
  /\ isGoal(applyMoves(scrambledCube, Resolved.moves), goalCube)

\* C13: the solved cube scrambled by U R U' R', searched with the local
\* estimate only and the solved cube as goal, gets at most 4 moves, and
\* these take the scrambled cube to the goal.
ScenarioFourMoves ==
  (/\ ~genAI
   /\ promise = "fulfilled"
   /\ scrambledCube = applyMoves(createSolvedCube, <<"U", "R", "U'", "R'">>)
   /\ goalCube = createSolvedCube) =>
    /\ lastStep = "goal"
    /\ Len(Resolved.moves) <= 4
    /\ isGoal(applyMoves(scrambledCube, Resolved.moves), createSolvedCube)

\* That search has resolved, with R U R' U' after visiting 33 cubes.
ScenarioFourMovesWitness ==
  /\ ~genAI
  /\ promise = "fulfilled"
  /\ scrambledCube = applyMoves(createSolvedCube, <<"U", "R", "U'", "R'">>)
  /\ goalCube = createSolvedCube
  /\ Resolved.moves = <<"R", "U", "R'", "U'">>
  /\ Resolved.statesExplored = 33

\* C14: the solved cube scrambled by R alone, searched with the local
\* estimate only and the solved cube as goal, gets exactly one move, R'.
ScenarioOneMove ==
  (/\ ~genAI
   /\ promise = "fulfilled"
   /\ scrambledCube = applyMove(createSolvedCube, "R")
   /\ goalCube = createSolvedCube) =>
    /\ lastStep = "goal"
    /\ Resolved.moves = <<"R'">>

\* That search has resolved with one move after visiting two cubes.
ScenarioOneMoveWitness ==
  /\ ~genAI
  /\ promise = "fulfilled"
  /\ scrambledCube = applyMove(createSolvedCube, "R")
  /\ goalCube = createSolvedCube
  /\ Len(Resolved.moves) = 1
  /\ Resolved.statesExplored = 2
  /\ isGoal(applyMove(scrambledCube, Resolved.moves[1]), createSolvedCube)

\* The nodes this search has pushed.
Pushed == {pushLog[i] : i \in 1..Len(pushLog)}

\* Replies that are failures: an exception, a text with no integer, and
\* texts whose first integer (0, 50, -1) is not strictly between 0 and 50.
\* The others carry an estimate.
FailedReplies ==
  {ThrowReply, TextReply(<<"n", "o">>), TextReply(<<"0">>), TextReply(<<"5", "0">>),
   TextReply(<<"-", "1">>)}
EstimateIn(reply) ==
  CASE reply = TextReply(<<"1">>) -> 1
    [] reply = TextReply(<<"4", "9">>) -> 49

\* The search waits for an oracle request, and the step settles it.
RequestSettles == frame.waits = "oracle" /\ frame'.waits # "oracle"

\* The request has settled, and the step is getAIEnhancedHeuristic going on
\* from its await with the reply.
ReplyHandled == frame.waits = "settled" /\ frame'.waits # "settled"

\* C17: in a search, the cache holds values of 1..49 only and every node's
\* h is the local estimate or the cached value of its key; a request that
\* settles changes nothing but has getAIEnhancedHeuristic go on in a
\* microtask; there, a request that threw, or whose text has no integer or
\* a first integer that is not strictly between 0 and 50, leaves the local
\* estimate as the value returned and the cache as it was, and any other
\* reply leaves its estimate, of 1..49, cached for the key; and the promise
\* is pending, with its next call scheduled or an await to return from, or
\* fulfilled: the search goes on.
OracleFailureIsLocal ==
  /\ [](/\ \A key \in DOMAIN aiHeuristicCache : aiHeuristicCache[key] \in 1..49
        /\ \A n \in Pushed :
             \/ n.hScore = getDisplacedPiecesHeuristic(n.cube, goalCube)
             \/ /\ hashCubeState(n.cube) \in DOMAIN aiHeuristicCache
                /\ n.hScore = aiHeuristicCache[hashCubeState(n.cube)]
        /\ promise \in {"none", "pending", "fulfilled"}
        /\ promise = "pending" => Outstanding = 1
        /\ frame.waits = "oracle" => hashCubeState(frame.cube) \notin DOMAIN aiHeuristicCache)
  /\ [][/\ RequestSettles =>
             /\ promise' = "pending"
             /\ frame'.waits = "settled"
             /\ frame'.reply \in OracleReplies
             /\ microtasks' = <<1>>
             /\ aiHeuristicCache' = aiHeuristicCache
             /\ openSet' = openSet
        /\ ReplyHandled =>
             /\ promise' = "pending"
             /\ frame'.waits = "inner"
             /\ frame'.cube = frame.cube
             /\ microtasks' = <<1>>
             /\ openSet' = openSet
             /\ IF frame.reply \in FailedReplies
                THEN /\ frame'.hScore = getDisplacedPiecesHeuristic(frame.cube, goalCube)
                     /\ aiHeuristicCache' = aiHeuristicCache
                ELSE /\ frame'.hScore = EstimateIn(frame.reply)
                     /\ frame'.hScore \in 1..49
                     /\ aiHeuristicCache' =
                          CacheSet(aiHeuristicCache, hashCubeState(frame.cube),
                                   frame'.hScore)
       ]_vars

\* The neighbours of `current` as nodes with the local estimate alone.
LocalNeighbours(current, goal) ==
  [k \in 1..Len(validMoves) |->
     LET cube == applyMove(current.cube, validMoves[k])
     IN  [cube |-> cube, gScore |-> current.gScore + 1,
          hScore |-> getDisplacedPiecesHeuristic(cube, goal),
          fScore |-> current.gScore + 1 + getDisplacedPiecesHeuristic(cube, goal),
          moves |-> Append(current.moves, validMoves[k])]]
\* C18: without an oracle the cache stays empty, no request is made, every
\* node has the local estimate of its cube as h whatever the counter is, and
\* every step leaves the frontier and the visited set as a search using the
\* local estimate directly would: a call drops a visited node, or marks the
\* node visited and takes it off the frontier; each await returned pushes
\* the next unvisited neighbour with its local estimate; and once the loop
\* is through, the frontier ends with the unvisited neighbours in the order
\* of the moves.
DegradesToLocal ==
  /\ [](~genAI =>
          /\ aiHeuristicCache = << >>
          /\ oracleRequests = 0
          /\ frame.waits \in {"none", "micro"}
          /\ \A n \in Pushed :
               n.hScore = getDisplacedPiecesHeuristic(n.cube, goalCube))
  /\ [][(~genAI /\ promise = "pending") =>
          /\ (Called /\ FrontierAtCall # << >>) =>
               LET key == hashCubeState(PoppedAtCall.cube)
                   rest == Tail(SortByFScore(FrontierAtCall))
               IN  /\ openSet' = rest
                   /\ visited' = IF key \in visited THEN visited ELSE visited \cup {key}
          /\ frame.at = "neighbor" =>
               /\ hashCubeState(frame.cube) \notin visited
               /\ openSet' = Append(openSet,
                                    LocalNeighbours(frame.currentState, goalCube)[frame.k])
               /\ visited' = visited
          /\ lastStep' = "expanded" =>
               LET current == IF frame.at = "neighbor" THEN frame.currentState
                              ELSE PoppedAtCall
                   pushed == SelectSeq(LocalNeighbours(current, goalCube),
                                       LAMBDA n : hashCubeState(n.cube) \notin visited')
               IN  /\ Len(openSet') >= Len(pushed)
                   /\ SubSeq(openSet', Len(openSet') - Len(pushed) + 1, Len(openSet'))
                        = pushed
       ]_vars

\* Without an oracle, a step has expanded a node after the counter went
\* past 30, so calls number 15 and 30 were made.
DegradesToLocalWitness ==
  /\ ~genAI
  /\ lastStep = "expanded"
  /\ heuristicCallCount > 30
  /\ aiHeuristicCache = << >>

-----------------------------------------------------------------------------
(* Properties of two invocations, stated for SpecConcurrent. *)

\* C15: a step of one invocation leaves the counter and the cache of the
\* other, still running, as they were: whenever the first invocation is
\* pending and the second takes a step (is called, returns from an await,
\* runs processNextState or has its request settled), heuristicCallCount
\* and aiHeuristicCache do not change, and the same with the roles
\* exchanged.
InvocationOwnsCounterAndCache ==
  [][/\ (promise = "pending" /\ other' # other) =>
          /\ heuristicCallCount' = heuristicCallCount
          /\ aiHeuristicCache' = aiHeuristicCache
     /\ (other.promise = "pending" /\ invocationVars' # invocationVars) =>
          /\ heuristicCallCount' = heuristicCallCount
          /\ aiHeuristicCache' = aiHeuristicCache]_vars

-----------------------------------------------------------------------------
(* Properties of the page, checked under SpecUI. *)

\* C16: once the caller has given up a search, that search runs no further
\* call of processNextState, returns from no await, makes no heuristic call
\* and keeps its frontier and visited set as they are.
NoWorkAfterAbandon ==
  [][(abandoned /\ abandoned') =>
       /\ steps' = steps
       /\ resumes' = resumes
       /\ heuristicCallCount' = heuristicCallCount
       /\ openSet' = openSet
       /\ visited' = visited]_vars

-----------------------------------------------------------------------------
(* Properties of the frontier and its nodes, checked under Spec. *)

\* When a node was pushed: its place in pushLog.
PushIndex(n) == Min({i \in 1..Len(pushLog) : pushLog[i] = n})

\* The node of the frontier a call finds that has the least f and, among
\* those, was pushed first.
EarliestLeast ==
  LET least == Min({FrontierAtCall[i].fScore : i \in 1..Len(FrontierAtCall)})
      ties == {FrontierAtCall[i] :
                 i \in {j \in 1..Len(FrontierAtCall) : FrontierAtCall[j].fScore = least}}
  IN  PushLogAtCall[Min({i \in 1..Len(PushLogAtCall) : PushLogAtCall[i] \in ties})]

\* C23: the node a call of processNextState removes from the frontier is
\* the one with the least f, and among the nodes with that f the one pushed
\* first: the others stay, and the removed one is the node the call expands
\* or returns the path of.  No other step of the search removes a node.
PopsEarliestLeast ==
  [][promise = "pending" =>
       /\ (Called /\ FrontierAtCall # << >>) =>
            /\ Len(openSet') = Len(FrontierAtCall) - 1
            /\ {openSet'[i] : i \in 1..Len(openSet')}
                 = {FrontierAtCall[i] : i \in 1..Len(FrontierAtCall)} \ {EarliestLeast}
            /\ lastStep' \in {"popped", "expanded"} =>
                 expanded'[Len(expanded')] = hashCubeState(EarliestLeast.cube)
            /\ lastStep' = "goal" => result'[Len(result')].moves = EarliestLeast.moves
       /\ ~Called =>
            /\ Len(openSet') >= Len(openSet)
            /\ SubSeq(openSet', 1, Len(openSet)) = openSet]_vars

\* The frontier holds, somewhere, a node in front of one that was pushed
\* before it (the sort has moved nodes), and a step has just removed the
\* least of five nodes or more.
PopsEarliestLeastWitness ==
  /\ lastStep = "expanded"
  /\ steps >= 3
  /\ Len(openSet) >= 20
  /\ \E i \in 1..(Len(openSet) - 1) : PushIndex(openSet[i]) > PushIndex(openSet[i + 1])

\* C24: the start node has g = 0 and no moves; every node pushed has g = the
\* number of its moves, f = g + h and, as cube, the start cube with its moves
\* applied; a neighbour has the g of the expanded node plus 1, its path
\* with the move added and its cube turned by the move, and its key is not
\* in the visited set it was generated against.  Nodes are pushed one by
\* one, each when the await of its estimate returns.
NodeInvariant ==
  [][/\ promise # "pending" => pushLog' = << >> /\ openSet' = << >>
     /\ (promise = "pending" /\ frame.at = "start" /\ frame.waits = "micro") =>
          /\ Len(pushLog') = 1
          /\ pushLog'[1].gScore = 0
          /\ pushLog'[1].moves = << >>
          /\ pushLog'[1].cube = scrambledCube
          /\ pushLog'[1].fScore = pushLog'[1].hScore
          /\ FrontierAtCall = pushLog'
     /\ (promise = "pending" /\ frame.at = "neighbor" /\ frame.waits = "micro") =>
          LET n == pushLog'[Len(pushLog')]
              parent == frame.currentState
          IN  /\ pushLog' = Append(pushLog, n)
              /\ openSet' = Append(openSet, n)
              /\ n.gScore = Len(n.moves)
              /\ n.fScore = n.gScore + n.hScore
              /\ n.cube = applyMoves(scrambledCube, n.moves)
              /\ hashCubeState(n.cube) \notin visited'
              /\ hashCubeState(parent.cube) = expanded[Len(expanded)]
              /\ \E i \in 1..Len(pushLog) : pushLog[i] = parent
              /\ n.gScore = parent.gScore + 1
              /\ \E X \in Moves :
                   /\ n.moves = parent.moves \o <<X>>
                   /\ n.cube = applyMove(parent.cube, X)
     /\ (promise = "pending" /\ frame.waits # "micro") => pushLog' = pushLog]_vars

\* The search has pushed a node three moves or more from the start, the
\* last of a hundred nodes.
NodeInvariantWitness ==
  /\ lastStep = "expanded"
  /\ Len(pushLog) >= 100
  /\ pushLog[Len(pushLog)].gScore >= 3
  /\ pushLog[Len(pushLog)].cube = applyMoves(scrambledCube, pushLog[Len(pushLog)].moves)

\* The cases of one heuristic call tried in each state: the counter as it
\* is and just before a multiple of the cadence, the cache as it is and with
\* the cube's key in it.
CadenceCounts == {heuristicCallCount, OracleCadence - 2, OracleCadence - 1, 2 * OracleCadence - 1}
CadenceCaches == {aiHeuristicCache, CacheSet(aiHeuristicCache, hashCubeState(scrambledCube), 7)}

\* C25: a heuristic call issues an oracle request only when its call number
\* is a multiple of 15, an oracle is configured and the key is not cached;
\* with the key cached it returns the cached value and issues no request;
\* the requests of a search are at most floor(heuristic calls / 15), and
\* none without an oracle.
OracleCadenceHolds ==
  /\ OracleCadence * oracleRequests <= heuristicCallCount
  /\ ~genAI => oracleRequests = 0 /\ aiHeuristicCache = << >>
  /\ Cardinality(DOMAIN aiHeuristicCache) <= oracleRequests
  /\ promise # "none" =>
       \A count \in CadenceCounts, configured \in BOOLEAN, cache \in CadenceCaches,
          reply \in {ThrowReply, TextReply(<<"1">>)} :
         LET key == hashCubeState(scrambledCube)
             sh == getSmartHeuristic(scrambledCube, goalCube, configured, count, cache, reply)
         IN  /\ sh.count = count + 1
             /\ sh.asked <=> /\ (count + 1) % OracleCadence = 0
                             /\ configured
                             /\ key \notin DOMAIN cache
             /\ ((count + 1) % OracleCadence = 0 /\ configured /\ key \in DOMAIN cache)
                  => sh.h = cache[key] /\ sh.cache = cache
             /\ ~sh.asked => sh.cache = cache

\* A search with an oracle has made its 15th heuristic call, issued its
\* request there and cached the reply.
OracleCadenceHoldsWitness ==
  /\ genAI
  /\ oracleRequests = 1
  /\ heuristicCallCount \in OracleCadence..(2 * OracleCadence - 1)
  /\ DOMAIN aiHeuristicCache # {}

\* C26: a call of solveCube leaves the counter at 1 (reset to 0, then the
\* start node's evaluation as call number 1, which is no oracle call), the
\* cache empty whatever the search before left in it, the visited set and
\* the frontier new and empty; when the await of the start node's estimate
\* returns, the start node is pushed and the first call of processNextState
\* finds the frontier holding it alone.
SearchStartsClean ==
  [][/\ (promise # "pending" /\ promise' = "pending") =>
          /\ heuristicCallCount' = 1
          /\ aiHeuristicCache' = << >>
          /\ oracleRequests' = 0
          /\ visited' = {}
          /\ openSet' = << >>
          /\ scheduled' = 0
          /\ frame'.at = "start"
          /\ frame'.waits = "micro"
          /\ frame'.cube = scrambledCube'
          /\ frame'.hScore = getDisplacedPiecesHeuristic(scrambledCube', goalCube')
     /\ (promise = "pending" /\ frame.at = "start") =>
          /\ steps = 0
          /\ visited = {}
          /\ Called
          /\ Len(FrontierAtCall) = 1
          /\ FrontierAtCall[1].cube = scrambledCube
          /\ FrontierAtCall[1].moves = << >>
          /\ FrontierAtCall[1].hScore = getDisplacedPiecesHeuristic(scrambledCube, goalCube)
          /\ pushLog' = FrontierAtCall]_vars

\* A search has just been called, with an oracle configured: it waits for
\* the start node's estimate.
SearchStartsCleanWitness ==
  /\ lastStep = "start"
  /\ promise = "pending"
  /\ frame.at = "start"
  /\ genAI
  /\ heuristicCallCount = 1
  /\ aiHeuristicCache = << >>
  /\ visited = {}
  /\ openSet = << >>

\* C27: at most one call of processNextState of a search is scheduled, and
\* while its promise is pending exactly one call, await or oracle request is
\* outstanding; a call removes one frontier entry at most and resolves, or
\* leaves a successor scheduled or an await whose return goes on with the
\* loop; a step makes one heuristic call at most, with one oracle request
\* at most, and a node is pushed when the await of its own call has its
\* value, carrying that value.
OneSequence ==
  [][/\ scheduled' \in {0, 1}
     /\ Outstanding' \in {0, 1}
     /\ (promise' = "pending") <=> (Outstanding' = 1)
     /\ (promise' = "fulfilled") <=> (Outstanding' = 0 /\ Len(result') = 1)
     /\ Len(timers') = scheduled'
     /\ promise = "pending" =>
          LET pushed == Len(pushLog') - Len(pushLog)
              left == IF FrontierAtCall = << >> THEN 0 ELSE Len(FrontierAtCall) - 1
          IN  /\ Outstanding = 1
              /\ Called => Len(openSet') = left
              /\ Called <=> (scheduled = 1 \/ frame.at = "start")
              /\ scheduled' = 1 => (scheduled = 0 \/ Called)
              /\ pushed \in {0, 1}
              /\ pushed = 1 <=> frame.waits = "micro"
              /\ pushed = 1 =>
                   /\ pushLog'[Len(pushLog')].cube = frame.cube
                   /\ pushLog'[Len(pushLog')].hScore = frame.hScore
              /\ heuristicCallCount' \in {heuristicCallCount, heuristicCallCount + 1}
              /\ oracleRequests' \in {oracleRequests, oracleRequests + 1}
              /\ frame.waits \in {"oracle", "settled", "inner"} =>
                   /\ heuristicCallCount' = heuristicCallCount
                   /\ oracleRequests' = oracleRequests
                   /\ openSet' = openSet
                   /\ frame'.waits # "none"
              /\ promise' = "fulfilled" => heuristicCallCount' = heuristicCallCount
              /\ heuristicCallCount' = heuristicCallCount + 1 =>
                   /\ frame'.waits # "none"
                   /\ (heuristicCallCount' % OracleCadence # 0 \/ ~genAI) =>
                        /\ frame'.waits = "micro"
                        /\ frame'.hScore =
                             getDisplacedPiecesHeuristic(frame'.cube, goalCube)]_vars

\* A pending search has taken steps, the last of which pushed nodes and
\* scheduled its successor, and an oracle request was made on the way.
OneSequenceWitness ==
  /\ promise = "pending"
  /\ scheduled = 1
  /\ lastStep = "expanded"
  /\ steps >= 3
  /\ oracleRequests >= 1

-----------------------------------------------------------------------------
(* The solution on display, checked under SpecUI. *)

\* What is left of the solution on display after move currentMoveIndex.
MovesLeft == SubSeq(solution, currentMoveIndex + 2, Len(solution))

\* C28: whenever the solution on display is not empty, the moves after
\* currentMoveIndex take the cube on display to the goal; and the playback
\* timer, while it runs, plays the solution on display.
DisplayedSolutionStaysValid ==
  /\ solution # << >> => isGoal(applyMoves(cubeState, MovesLeft), createSolvedCube)
  /\ intervalRef.live => intervalRef.solution = solution

====
